---------------------------- MODULE Spec2Model ----------------------------
(***************************************************************************)
(* A state-machine model of the hk kernel's network core: the packet       *)
(* buffer (net/skb.rs), TCP input (net/tcp_input.rs), the socket system    *)
(* calls (net/syscall.rs), the socket file operations                      *)
(* (net/socket_file.rs) and the routing table (net/route.rs); and of its   *)
(* PID and user namespaces (ns/pid.rs, ns/user.rs); and of its read-only   *)
(* ext4 driver (fs/ext4.rs).                                               *)
(*                                                                         *)
(* Each subsystem has its own specification over the shared variables:     *)
(*   SpecSkb   the packet buffer and its cursor operations                 *)
(*   Spec      one TCP socket: tcp_rcv on arbitrary segments and the       *)
(*             socket calls that drive the connection                      *)
(*   SpecSock  tasks blocked in and returning from socket system calls     *)
(*   SpecSend  write and sendto against the peer's send window             *)
(*   SpecRace  two CPUs inside tcp_rcv for the same connection             *)
(*   SpecShut  readers and shutdown callers under fair scheduling          *)
(*   SpecRoute the routing table and route_lookup (net/route.rs)           *)
(*   SpecUplink  route_lookup on a host with two networks and an uplink    *)
(*   SpecPid   PID namespaces (ns/pid.rs)                                  *)
(*   SpecReaper  one child PID namespace and direct register calls         *)
(*   SpecUser  user namespaces and their UID/GID maps (ns/user.rs)         *)
(*   SpecTag   the tags of a packet buffer between alloc and reset         *)
(*   SpecHandshake  the answers to a SYN on a connecting socket            *)
(*   SpecPoll  poll on a socket that connects, receives and closes         *)
(*   SpecMount ext4 mount over superblocks of every kind                   *)
(*   SpecExtent  extent mapping and readpage over extent trees             *)
(*   SpecData  data, FIN and RST in and out of order on a connection       *)
(*   SpecFin   a reader on a connection the peer closes                    *)
(*   SpecMaps  every writer of a PID namespace's two maps                  *)
(*   SpecConnectFair  the handshake with a fairly scheduled connect caller *)
(*   SpecInput tcp_rcv from the packet on: sound and broken packets        *)
(*   SpecError read and write racing for the pending error                 *)
(*   SpecWalk  the extent-tree search, one descent at a time               *)
(* Variables a specification does not use keep their initial value.        *)
(***************************************************************************)
EXTENDS Integers, Sequences, FiniteSets, TLC

VARIABLES
    skb,               \* the packet buffer: NoSkb or its four cursors
    debug_assertions,  \* the build: debug_assert! compiled in, overflow checks on
    panicked,          \* the kernel has panicked (assertion, arithmetic overflow)
    sk,                \* the socket with its TCP control block
    task,              \* per task: the system call it is in and where
    out,               \* what the last operation emitted: ACKs sent, queues woken
    cpu,               \* per CPU: its position and registers inside tcp_rcv
    budget,            \* connect calls the user program has yet to make
    routes,            \* the routing table, in insertion order
    rt,                \* what the last route_lookup returned
    pidns,             \* the PID namespaces
    pidcpu,            \* per CPU: its position inside alloc_pid
    pid_log,           \* per PID namespace: the PIDs alloc_pid returned, in order
    pidret,            \* what the last PID-namespace call returned
    userns,            \* the user namespaces
    idret,             \* what the last user-namespace call returned
    skbtag,            \* the packet buffer's tags: protocol, offsets, device, ...
    img,               \* the ext4 image on the block device
    fs,                \* the ext4 driver: mounted superblock data and caches
    fsret,             \* what the last ext4 operation returned
    walk               \* the extent-tree search in progress, descent by descent

vars ==
    <<skb, debug_assertions, panicked, sk, task, out, cpu, budget, routes, rt,
      pidns, pidcpu, pid_log, pidret, userns, idret, skbtag, img, fs, fsret,
      walk>>

skbVars == <<skb, debug_assertions, panicked>>
netVars == <<sk, task, out, cpu, budget>>
routeVars == <<routes, rt>>
pidVars == <<pidns, pidcpu, pid_log, pidret>>
userVars == <<userns, idret>>
ext4Vars == <<img, fs, fsret, walk>>

\* What the actions of one subsystem leave alone: the other subsystems.  The
\* cursor operations of the packet buffer leave its tags alone as well.
notTagVars == <<netVars, routeVars, pidVars, userVars, ext4Vars>>
notSkbVars == <<skbtag, notTagVars>>
notNetVars == <<skbVars, skbtag, routeVars, pidVars, userVars, ext4Vars>>
notRouteVars == <<skbVars, skbtag, netVars, pidVars, userVars, ext4Vars>>
notPidVars == <<skbVars, skbtag, netVars, routeVars, userVars, ext4Vars>>
notUserVars == <<skbVars, skbtag, netVars, routeVars, pidVars, ext4Vars>>
notExt4Vars == <<skbVars, skbtag, netVars, routeVars, pidVars, userVars>>

Min(a, b) == IF a <= b THEN a ELSE b

(***************************************************************************)
(*                       PACKET BUFFER  (net/skb.rs)                       *)
(***************************************************************************)

\* Largest argument handed to a packet-buffer operation.
MaxSkbArg == 3

\* Maximum packet size alloc accepts.
MAX_SKB_SIZE == 2048

\* Address the allocator returns (16-byte aligned).
SkbBase == 16

NoSkb == [head |-> 0, data |-> 0, tail |-> 0, end |-> 0, alloc_size |-> 0]

\* The tags SkBuff::alloc gives a new buffer; "none" stands for None and
\* "Unknown0" for EtherType::Unknown(0).
FreshTags ==
    [protocol |-> "Unknown0", ip_protocol |-> 0, transport_header |-> 0,
     network_header |-> 0, mac_header |-> 0, dev |-> "none", dma_addr |-> "none",
     ip_summed |-> "None", saddr |-> "none", daddr |-> "none"]

SkbArgs == 0 .. MaxSkbArg

\* Data lengths handed to alloc: small ones, and one past the maximum.
SkbAllocLens == SkbArgs \cup {MAX_SKB_SIZE + 1}

\* Addresses a pointer can hold in the model; usize arithmetic wraps at AddrMod.
AddrMod == SkbBase + 2 * MaxSkbArg + 2
Addrs == 0 .. (AddrMod - 1)

\* ptr.add(n) / ptr.sub(n): defined while the result stays inside the
\* allocation [head, end]; outside it the operation is undefined behaviour and
\* the pointer may come out as any address.
PtrOffset(b, p, n) ==
    IF b.head <= p + n /\ p + n <= b.end THEN {p + n} ELSE Addrs

\* a - b on usize: overflow panics in a debug build and wraps in a release build.
UsizeSubOverflows(a, b) == a < b
UsizeSub(a, b) == IF a >= b THEN a - b ELSE a - b + AddrMod

SkbLen(b) == UsizeSub(b.tail, b.data)
SkbHeadroom(b) == UsizeSub(b.data, b.head)
SkbTailroom(b) == UsizeSub(b.end, b.tail)
SkbIsEmpty(b) == SkbLen(b) = 0

\* A usize subtraction that overflows in a debug build panics the kernel.
SkbPanic ==
    /\ panicked' = TRUE
    /\ UNCHANGED <<skb, debug_assertions>>

SkbLive == skb # NoSkb /\ ~panicked

\* SkBuff::alloc(headroom, data_len): None for a size over the maximum or when
\* the allocator returns null, else a buffer with empty data after the headroom.
SkbAlloc(headroom, data_len) ==
    /\ ~panicked
    /\ LET total_size == headroom + data_len IN
       IF total_size > MAX_SKB_SIZE
       THEN UNCHANGED <<skb, skbtag>>
       ELSE \/ UNCHANGED <<skb, skbtag>>
            \/ /\ skb' = [head |-> SkbBase,
                          data |-> SkbBase + headroom,
                          tail |-> SkbBase + headroom,
                          end |-> SkbBase + total_size,
                          alloc_size |-> total_size]
               /\ skbtag' = FreshTags
    /\ UNCHANGED <<debug_assertions, panicked>>
    /\ UNCHANGED notTagVars

\* SkBuff::reserve(len): both checks are debug_assert!, absent from a release build.
SkbReserve(len) ==
    /\ SkbLive
    /\ IF debug_assertions /\
          (\/ UsizeSubOverflows(skb.tail, skb.data)
           \/ UsizeSubOverflows(skb.data, skb.head)
           \/ ~SkbIsEmpty(skb)
           \/ SkbHeadroom(skb) + len > skb.alloc_size)
       THEN SkbPanic
       ELSE /\ \E p \in PtrOffset(skb, skb.data, len) :
                  skb' = [skb EXCEPT !.data = p, !.tail = p]
            /\ UNCHANGED <<debug_assertions, panicked>>
    /\ UNCHANGED notSkbVars

\* SkBuff::push(len)
SkbPush(len) ==
    /\ SkbLive
    /\ IF debug_assertions /\ UsizeSubOverflows(skb.data, skb.head)
       THEN SkbPanic
       ELSE /\ IF SkbHeadroom(skb) < len
               THEN UNCHANGED skb
               ELSE \E p \in PtrOffset(skb, skb.data, -len) :
                        skb' = [skb EXCEPT !.data = p]
            /\ UNCHANGED <<debug_assertions, panicked>>
    /\ UNCHANGED notSkbVars

\* SkBuff::pull(len)
SkbPull(len) ==
    /\ SkbLive
    /\ IF debug_assertions /\ UsizeSubOverflows(skb.tail, skb.data)
       THEN SkbPanic
       ELSE /\ IF SkbLen(skb) < len
               THEN UNCHANGED skb
               ELSE \E p \in PtrOffset(skb, skb.data, len) :
                        skb' = [skb EXCEPT !.data = p]
            /\ UNCHANGED <<debug_assertions, panicked>>
    /\ UNCHANGED notSkbVars

\* The cursor move of SkBuff::put(len) on buffer b: the set of buffers it can
\* leave, or {} when put returns None.
PutResult(b, len) ==
    IF SkbTailroom(b) < len
    THEN {}
    ELSE {[b EXCEPT !.tail = p] : p \in PtrOffset(b, b.tail, len)}

\* The cursor move of SkBuff::trim(len) on buffer b.
TrimResult(b, len) ==
    IF SkbLen(b) < len
    THEN {}
    ELSE {[b EXCEPT !.tail = p] : p \in PtrOffset(b, b.tail, -len)}

\* SkBuff::put(len)
SkbPut(len) ==
    /\ SkbLive
    /\ IF debug_assertions /\ UsizeSubOverflows(skb.end, skb.tail)
       THEN SkbPanic
       ELSE /\ IF PutResult(skb, len) = {}
               THEN UNCHANGED skb
               ELSE skb' \in PutResult(skb, len)
            /\ UNCHANGED <<debug_assertions, panicked>>
    /\ UNCHANGED notSkbVars

\* SkBuff::put_slice(data): put(data.len()) and a copy into the new bytes.
SkbPutSlice(data_len) ==
    /\ SkbLive
    /\ IF debug_assertions /\ UsizeSubOverflows(skb.end, skb.tail)
       THEN SkbPanic
       ELSE /\ IF PutResult(skb, data_len) = {}
               THEN UNCHANGED skb
               ELSE skb' \in PutResult(skb, data_len)
            /\ UNCHANGED <<debug_assertions, panicked>>
    /\ UNCHANGED notSkbVars

\* SkBuff::trim(len)
SkbTrim(len) ==
    /\ SkbLive
    /\ IF debug_assertions /\ UsizeSubOverflows(skb.tail, skb.data)
       THEN SkbPanic
       ELSE /\ IF TrimResult(skb, len) = {}
               THEN UNCHANGED skb
               ELSE skb' \in TrimResult(skb, len)
            /\ UNCHANGED <<debug_assertions, panicked>>
    /\ UNCHANGED notSkbVars

\* SkBuff::set_len(len): put or trim by the difference to the current length.
SkbSetLen(len) ==
    /\ SkbLive
    /\ IF debug_assertions /\
          (\/ UsizeSubOverflows(skb.tail, skb.data)
           \/ (len > SkbLen(skb) /\ UsizeSubOverflows(skb.end, skb.tail)))
       THEN SkbPanic
       ELSE /\ LET current_len == SkbLen(skb)
                   res == IF len > current_len
                          THEN PutResult(skb, len - current_len)
                          ELSE IF len < current_len
                          THEN TrimResult(skb, current_len - len)
                          ELSE {skb}
               IN  IF res = {} THEN UNCHANGED skb ELSE skb' \in res
            /\ UNCHANGED <<debug_assertions, panicked>>
    /\ UNCHANGED notSkbVars

\* SkBuff::reset(headroom): no check of headroom against the allocation; the
\* tags it assigns, and no others, go back to their initial values.
SkbReset(headroom) ==
    /\ SkbLive
    /\ \E p \in PtrOffset(skb, skb.head, headroom) :
           skb' = [skb EXCEPT !.data = p, !.tail = p]
    /\ skbtag' = [skbtag EXCEPT !.protocol = "Unknown0",
                                !.ip_protocol = 0,
                                !.transport_header = 0,
                                !.network_header = 0,
                                !.mac_header = 0,
                                !.ip_summed = "None",
                                !.saddr = "none",
                                !.daddr = "none"]
    /\ UNCHANGED <<debug_assertions, panicked>>
    /\ UNCHANGED notTagVars

\* The values a user of the buffer stores in its public tag fields: the
\* driver its device, DMA address, checksum state and the EtherType, the IP
\* layer the protocol number and the addresses.
TagValues ==
    [protocol |-> {"Unknown0", "Ipv4"}, ip_protocol |-> {0, 6},
     mac_header |-> {0, MaxSkbArg}, dev |-> {"none", "eth0"},
     dma_addr |-> {"none", "dma"}, ip_summed |-> {"None", "Unnecessary"},
     saddr |-> {"none", "peer"}, daddr |-> {"none", "host"}]

\* skb.field = value on one of the pub fields of SkBuff
SkbStoreTag(field, value) ==
    /\ SkbLive
    /\ skbtag' = [skbtag EXCEPT ![field] = value]
    /\ UNCHANGED skbVars
    /\ UNCHANGED notTagVars

\* SkBuff::set_network_header
SkbSetNetworkHeader ==
    /\ SkbLive
    /\ skbtag' = [skbtag EXCEPT !.network_header = 0]
    /\ UNCHANGED skbVars
    /\ UNCHANGED notTagVars

\* SkBuff::set_network_header_offset(offset)
SkbSetNetworkHeaderOffset(offset) ==
    /\ SkbLive
    /\ skbtag' = [skbtag EXCEPT !.network_header = offset]
    /\ UNCHANGED skbVars
    /\ UNCHANGED notTagVars

\* SkBuff::set_transport_header(offset)
SkbSetTransportHeader(offset) ==
    /\ SkbLive
    /\ skbtag' = [skbtag EXCEPT !.transport_header = offset]
    /\ UNCHANGED skbVars
    /\ UNCHANGED notTagVars

\* SkBuff::set_mac_header
SkbSetMacHeader ==
    /\ SkbLive
    /\ skbtag' = [skbtag EXCEPT !.mac_header = 0]
    /\ UNCHANGED skbVars
    /\ UNCHANGED notTagVars

(***************************************************************************)
(*                 TCP SEQUENCE ARITHMETIC AND SEGMENTS                    *)
(***************************************************************************)

\* Sequence numbers are SeqBits wide (32 in the kernel); all arithmetic on
\* them wraps at SeqMod.
SeqBits == 3
SeqMod == 2 ^ SeqBits
SeqHalf == SeqMod \div 2

\* An addition that does not wrap.
PlainAdd(a, n) == a + n

\* u32::wrapping_add, u32::wrapping_sub
WrappingAdd(a, n) == (a + n) % SeqMod
WrappingSub(a, b) == (a - b + SeqMod) % SeqMod

\* Modular comparison: a < b iff (a - b) as i32 < 0.
SeqLT(a, b) == WrappingSub(a, b) >= SeqHalf
SeqLE(a, b) == a = b \/ SeqLT(a, b)

\* Largest window a peer advertises, longest payload of a segment.
MaxWnd == 2
MaxPayload == 2

\* Capacities of the model's queues.
MaxRx == 3
MaxRtx == 2
MaxOoo == 1

Flags == {"SYN", "ACK", "FIN", "RST"}

\* errno values (net/libc.rs); the socket stores them negated.
ECONNRESET == 104
ECONNREFUSED == 111

\* The wait queues of a socket.
WaitQueues == {"rx", "tx", "connect"}

EmptyOoo == [k \in {} |-> <<>>]

\* Socket::new with its TcpSock, as sys_socket creates it.
NewSocket(nonblock) ==
    [state |-> "Closed", irs |-> 0, snd_una |-> 0, snd_nxt |-> 0, snd_wnd |-> 0,
     rcv_nxt |-> 0, rtx |-> <<>>, ooo |-> EmptyOoo, rx |-> <<>>, eof |-> FALSE,
     error |-> 0, nonblocking |-> nonblock, o_nonblock |-> nonblock]

\* What a handler leaves: the socket, the ACKs it sent, the queues it woke.
Res(s, acks, woke) == [sk |-> s, acks |-> acks, woke |-> woke]

\* Socket::deliver_data: append the payload to the receive queue.
DeliverData(s, payload) == [s EXCEPT !.rx = s.rx \o payload]

\* BTreeMap::insert on the out-of-order queue.
OooInsert(ooo, seq, payload) ==
    [k \in (DOMAIN ooo) \cup {seq} |-> IF k = seq THEN payload ELSE ooo[k]]

(***************************************************************************)
(*                     TCP INPUT  (net/tcp_input.rs)                       *)
(***************************************************************************)

\* process_syn_sent
ProcessSynSent(s, seg) ==
    IF "ACK" \in seg.flags
    THEN IF seg.ack # s.snd_nxt
         THEN Res(s, 0, {})
         ELSE IF "RST" \in seg.flags
         THEN Res([s EXCEPT !.state = "Closed", !.error = -ECONNREFUSED],
                  0, {"connect"})
         ELSE IF "SYN" \in seg.flags
         THEN Res([s EXCEPT !.irs = seg.seq,
                            !.rcv_nxt = WrappingAdd(seg.seq, 1),
                            !.snd_una = seg.ack,
                            !.snd_wnd = seg.wnd,
                            !.state = "Established"],
                  1, {"connect"})
         ELSE Res(s, 0, {})
    ELSE Res(s, 0, {})

\* An acknowledgement test that forgets the window: every ack is taken.
AckAlwaysAccepted(ack, snd_una, snd_nxt) == TRUE

\* process_established: the test that accepts an acknowledgement.
AckAcceptable(ack, snd_una, snd_nxt) ==
    WrappingSub(ack, snd_una) <= WrappingSub(snd_nxt, snd_una)

\* process_established: the retain predicate of the retransmit queue.
RtxKeep(entry, ack) == WrappingAdd(entry.seq, entry.len) > ack

\* process_established: the ACK part.
EstAck(r, seg) ==
    IF "ACK" \in seg.flags /\ AckAcceptable(seg.ack, r.sk.snd_una, r.sk.snd_nxt)
    THEN Res([r.sk EXCEPT !.snd_una = seg.ack,
                          !.rtx = SelectSeq(r.sk.rtx, LAMBDA e : RtxKeep(e, seg.ack)),
                          !.snd_wnd = seg.wnd],
             r.acks, r.woke \cup {"tx"})
    ELSE r


\* A data part that answers old data with an ACK as well.
EstDataAcksOld(r, seg) ==
    IF seg.payload # <<>>
    THEN IF seg.seq = r.sk.rcv_nxt
         THEN Res([DeliverData(r.sk, seg.payload) EXCEPT
                       !.rcv_nxt = WrappingAdd(r.sk.rcv_nxt, Len(seg.payload))],
                  r.acks + 1, r.woke \cup {"rx"})
         ELSE IF WrappingSub(seg.seq, r.sk.rcv_nxt) < SeqHalf
         THEN Res([r.sk EXCEPT !.ooo = OooInsert(r.sk.ooo, seg.seq, seg.payload)],
                  r.acks + 1, r.woke)
         ELSE Res(r.sk, r.acks + 1, r.woke)
    ELSE r

\* process_established: the data part.
EstData(r, seg) ==
    IF seg.payload # <<>>
    THEN IF seg.seq = r.sk.rcv_nxt
         THEN Res([DeliverData(r.sk, seg.payload) EXCEPT
                       !.rcv_nxt = WrappingAdd(r.sk.rcv_nxt, Len(seg.payload))],
                  r.acks + 1, r.woke \cup {"rx"})
         ELSE IF WrappingSub(seg.seq, r.sk.rcv_nxt) < SeqHalf
         THEN Res([r.sk EXCEPT !.ooo = OooInsert(r.sk.ooo, seg.seq, seg.payload)],
                  r.acks + 1, r.woke)
         ELSE r
    ELSE r


\* A FIN part that forgets to mark the end of the stream.
EstFinNoEof(r, seg) ==
    IF "FIN" \in seg.flags
    THEN Res([r.sk EXCEPT !.rcv_nxt = WrappingAdd(r.sk.rcv_nxt, 1),
                          !.state = "CloseWait"],
             r.acks + 1, r.woke \cup {"rx"})
    ELSE r

\* process_established: the FIN part.
EstFin(r, seg) ==
    IF "FIN" \in seg.flags
    THEN Res([r.sk EXCEPT !.rcv_nxt = WrappingAdd(r.sk.rcv_nxt, 1),
                          !.state = "CloseWait",
                          !.eof = TRUE],
             r.acks + 1, r.woke \cup {"rx"})
    ELSE r


\* A handler that looks at RST only after the ACK, the data and the FIN.
ProcessEstablishedRstLast(s, seg) ==
    LET r == EstFin(EstData(EstAck(Res(s, 0, {}), seg), seg), seg)
    IN  IF "RST" \in seg.flags
        THEN Res([r.sk EXCEPT !.state = "Closed", !.error = -ECONNRESET], 0, WaitQueues)
        ELSE r

\* process_established
ProcessEstablished(s, seg) ==
    IF "RST" \in seg.flags
    THEN Res([s EXCEPT !.state = "Closed", !.error = -ECONNRESET], 0, WaitQueues)
    ELSE EstFin(EstData(EstAck(Res(s, 0, {}), seg), seg), seg)


\* A FinWait1 handler that takes any ACK as the acknowledgement of the FIN.
ProcessFinWait1AnyAck(s, seg) ==
    IF "RST" \in seg.flags
    THEN Res([s EXCEPT !.state = "Closed"], 0, WaitQueues)
    ELSE LET s1 == IF "ACK" \in seg.flags
                   THEN [s EXCEPT !.state = "FinWait2"]
                   ELSE s
         IN  IF "FIN" \in seg.flags
             THEN Res([s1 EXCEPT !.rcv_nxt = WrappingAdd(s1.rcv_nxt, 1),
                                 !.state = IF s1.state = "FinWait2"
                                           THEN "TimeWait" ELSE "Closing",
                                 !.eof = TRUE],
                      1, {"rx"})
             ELSE Res(s1, 0, {})

\* process_fin_wait1
ProcessFinWait1(s, seg) ==
    IF "RST" \in seg.flags
    THEN Res([s EXCEPT !.state = "Closed"], 0, WaitQueues)
    ELSE LET s1 == IF "ACK" \in seg.flags /\ seg.ack = s.snd_nxt
                   THEN [s EXCEPT !.state = "FinWait2"]
                   ELSE s
         IN  IF "FIN" \in seg.flags
             THEN Res([s1 EXCEPT !.rcv_nxt = WrappingAdd(s1.rcv_nxt, 1),
                                 !.state = IF s1.state = "FinWait2"
                                           THEN "TimeWait" ELSE "Closing",
                                 !.eof = TRUE],
                      1, {"rx"})
             ELSE Res(s1, 0, {})

\* process_fin_wait2
ProcessFinWait2(s, seg) ==
    IF "FIN" \in seg.flags
    THEN Res([s EXCEPT !.rcv_nxt = WrappingAdd(s.rcv_nxt, 1),
                       !.state = "TimeWait",
                       !.eof = TRUE],
             1, WaitQueues)
    ELSE Res(s, 0, {})

\* process_close_wait
ProcessCloseWait(s, seg) ==
    IF "RST" \in seg.flags
    THEN Res([s EXCEPT !.state = "Closed"], 0, WaitQueues)
    ELSE Res(s, 0, {})

\* process_last_ack
ProcessLastAck(s, seg) ==
    IF "ACK" \in seg.flags
    THEN Res([s EXCEPT !.state = "Closed"], 0, WaitQueues)
    ELSE Res(s, 0, {})

\* tcp_rcv, from the state dispatch on: the handler of the current state.
TcpRcvDispatch(s, seg) ==
    CASE s.state = "SynSent" -> ProcessSynSent(s, seg)
      [] s.state = "Established" -> ProcessEstablished(s, seg)
      [] s.state = "FinWait1" -> ProcessFinWait1(s, seg)
      [] s.state = "FinWait2" -> ProcessFinWait2(s, seg)
      [] s.state = "CloseWait" -> ProcessCloseWait(s, seg)
      [] s.state = "LastAck" -> ProcessLastAck(s, seg)
      [] OTHER -> Res(s, 0, {})


(***************************************************************************)
(*          TCP OUTPUT AND CONNECTION SETUP  (net/tcp.rs, contract)        *)
(***************************************************************************)

\* NetError::to_errno (positive errno)
ToErrno(e) ==
    CASE e = "WouldBlock" -> 11
      [] e = "NotConnected" -> 107
      [] e = "NetworkUnreachable" -> 101

\* tcp_connect on success: choose the initial send sequence number iss, send
\* the SYN (which takes one sequence number) and enter SynSent.
TcpConnect(s, iss) ==
    [s EXCEPT !.state = "SynSent", !.snd_una = iss, !.snd_nxt = WrappingAdd(iss, 1)]

\* tcp_close: send a FIN (one sequence number) from a synchronized state,
\* drop an unsynchronized connection.
TcpClose(s) ==
    CASE s.state = "Established" ->
             [s EXCEPT !.state = "FinWait1", !.snd_nxt = WrappingAdd(s.snd_nxt, 1)]
      [] s.state = "CloseWait" ->
             [s EXCEPT !.state = "LastAck", !.snd_nxt = WrappingAdd(s.snd_nxt, 1)]
      [] s.state \in {"Listen", "SynSent", "SynReceived"} ->
             [s EXCEPT !.state = "Closed"]
      [] OTHER -> s

\* The part of the peer's window not yet filled by data in flight.
EffectiveWindow(s) ==
    LET inflight == WrappingSub(s.snd_nxt, s.snd_una)
    IN  IF s.snd_wnd > inflight THEN s.snd_wnd - inflight ELSE 0

\* tcp_sendmsg(socket, data) with data.len() = len >= 1: [sk, ok, val] where val
\* is the number of bytes queued (ok) or the NetError.  The MSS is at least the
\* largest window, so the data accepted forms one segment.
TcpSendmsg(s, len) ==
    IF s.state \notin {"Established", "CloseWait"}
    THEN [sk |-> s, ok |-> FALSE, n |-> 0, err |-> "NotConnected"]
    ELSE IF EffectiveWindow(s) = 0
    THEN [sk |-> s, ok |-> FALSE, n |-> 0, err |-> "WouldBlock"]
    ELSE LET n == Min(len, EffectiveWindow(s))
         IN  [sk |-> [s EXCEPT !.rtx = Append(s.rtx, [seq |-> s.snd_nxt, len |-> n]),
                               !.snd_nxt = WrappingAdd(s.snd_nxt, n)],
              ok |-> TRUE, n |-> n, err |-> "WouldBlock"]

(***************************************************************************)
(*                     TASKS AND WAIT QUEUES                               *)
(***************************************************************************)

Tasks == {"t1", "t2"}

\* Connect calls a user program makes on one socket.
MaxConnects == 1

\* FsError variants a socket file operation returns.
FsWouldBlock == 1
FsIoError == 2

\* errno values of the system-call ABI (negative).
EINVAL == -22
ENOTCONN == -107
EISCONN == -106
EINPROGRESS == -115
EALREADY == -114

\* Results: a file operation returns Ok(n) or Err(FsError), a system call an i64.
FileOk(n) == [kind |-> "Ok", val |-> n]
FileErr(e) == [kind |-> "Err", val |-> e]
Sys(v) == [kind |-> "i64", val |-> v]

IdleTask ==
    [pc |-> "idle", op |-> "none", arg |-> 0, ret |-> Sys(0), buf |-> <<>>,
     optval |-> 0, err |-> 0]

\* A task at pc "idle" or "done" is in user space and may enter a system call.
InUser(t) == task[t].pc \in {"idle", "done"}

\* Entering operation op with argument arg.
Enter(t, op, arg) == [IdleTask EXCEPT !.op = op, !.arg = arg]

\* Leaving the kernel with result ret.
Leave(tk, ret) == [tk EXCEPT !.pc = "done", !.ret = ret]

\* WaitQueue::wake_all on each queue in woke: every task sleeping on it resumes
\* at the statement after its wait().
Wake(tk, woke) ==
    [t \in Tasks |->
        IF tk[t].pc = "read_sleep" /\ "rx" \in woke
        THEN [tk[t] EXCEPT !.pc = "read_check"]
        ELSE IF tk[t].pc = "write_sleep" /\ "tx" \in woke
        THEN [tk[t] EXCEPT !.pc = "write_retry"]
        ELSE IF tk[t].pc = "conn_sleep" /\ "connect" \in woke
        THEN [tk[t] EXCEPT !.pc = "conn_check"]
        ELSE tk[t]]

\* A task that has returned to user space has consumed its result by the time
\* anything else happens: its record holds the result for one step only.
Settle(tk) == [t \in Tasks |-> IF tk[t].pc = "done" THEN IdleTask ELSE tk[t]]

NoOut == [acks |-> 0, woke |-> {}]

(***************************************************************************)
(*                 tcp_rcv AS ONE STEP  (net/tcp_input.rs)                 *)
(***************************************************************************)

\* tcp_rcv on a segment of the socket's connection, run to completion.
TcpRcv(seg) ==
    /\ LET r == TcpRcvDispatch(sk, seg) IN
       /\ Len(r.sk.rx) <= MaxRx
       /\ Cardinality(DOMAIN r.sk.ooo) <= MaxOoo
       /\ sk' = r.sk
       /\ out' = [acks |-> r.acks, woke |-> r.woke]
       /\ task' = Wake(Settle(task), r.woke)
    /\ UNCHANGED <<cpu, budget>>
    /\ UNCHANGED notNetVars


(***************************************************************************)
(*          tcp_rcv FROM THE PACKET ON  (net/tcp_input.rs)                 *)
(***************************************************************************)

\* The shortest TCP header, in bytes (crate::net::tcp).
TCP_HLEN_MIN == 20

\* A packet handed to tcp_rcv: the length of the buffer, whether the IP layer
\* tagged it with a source and a destination address, the data offset of its
\* header in bytes, the result of tcp_checksum over it, whether its
\* four-tuple is in the connection table, and the segment it encodes.
Packet(len, saddr, daddr, data_offset, checksum, known, seg) ==
    [len |-> len, saddr |-> saddr, daddr |-> daddr, data_offset |-> data_offset,
     checksum |-> checksum, known |-> known, seg |-> seg]

\* A test of the data offset that forgets the end of the segment.
DataOffsetBelowMin(pkt) == pkt.data_offset < TCP_HLEN_MIN

\* tcp_rcv: data_offset < TCP_HLEN_MIN || data_offset > skb.len()
DataOffsetBad(pkt) == pkt.data_offset < TCP_HLEN_MIN \/ pkt.data_offset > pkt.len

\* tcp_rcv: the early returns before the state dispatch, in their order.
SkbDropped(pkt) ==
    \/ pkt.len < TCP_HLEN_MIN
    \/ ~pkt.saddr
    \/ ~pkt.daddr
    \/ DataOffsetBad(pkt)
    \/ pkt.checksum # 0
    \/ ~pkt.known

\* tcp_rcv(skb), run to completion: return early, or dispatch on the state of
\* the socket the four-tuple names.
TcpRcvSkb(pkt) ==
    IF SkbDropped(pkt)
    THEN /\ task' = Settle(task)
         /\ out' = NoOut
         /\ UNCHANGED <<sk, cpu, budget>>
         /\ UNCHANGED notNetVars
    ELSE TcpRcv(pkt.seg)

(***************************************************************************)
(*            SOCKET FILE OPERATIONS  (net/socket_file.rs)                 *)
(***************************************************************************)

\* FsError::from_errno
FsErrorFromErrno(errno) == IF errno = 11 THEN FsWouldBlock ELSE FsIoError

\* The nonblock flag read and write compute: the file's O_NONBLOCK or the
\* socket's nonblocking flag.
Nonblock(s) == s.o_nonblock \/ s.nonblocking

\* A read that never looks at the TCP state.
ReadIgnoresState(s) == FALSE

\* SocketFileOps::read: the state check that returns 0 for a closed connection.
ReadSeesClosed(s) == s.state \in {"Closed", "TimeWait"}

\* One pass of the loop of SocketFileOps::read by task record tk on socket s
\* with a buffer of buf_len bytes: the socket and the task record it leaves.
ReadPass(s, tk, buf_len) ==
    IF s.error # 0
    THEN [sk |-> [s EXCEPT !.error = 0],
          tk |-> Leave(tk, FileErr(FsErrorFromErrno(-s.error)))]
    ELSE IF s.rx # <<>>
    THEN LET n == Min(buf_len, Len(s.rx))
         IN  [sk |-> [s EXCEPT !.rx = SubSeq(s.rx, n + 1, Len(s.rx))],
              tk |-> [Leave(tk, FileOk(n)) EXCEPT !.buf = SubSeq(s.rx, 1, n)]]
    ELSE IF s.eof
    THEN [sk |-> s, tk |-> Leave(tk, FileOk(0))]
    ELSE IF ReadSeesClosed(s)
    THEN [sk |-> s, tk |-> Leave(tk, FileOk(0))]
    ELSE IF Nonblock(s)
    THEN [sk |-> s, tk |-> Leave(tk, FileErr(FsWouldBlock))]
    ELSE [sk |-> s, tk |-> [tk EXCEPT !.pc = "read_wait"]]

\* read(fd, buf, buf_len): entry and the first pass of the loop.
ReadCall(t, buf_len) ==
    /\ InUser(t)
    /\ LET r == ReadPass(sk, [Enter(t, "read", buf_len) EXCEPT !.pc = "read_check"],
                        buf_len) IN
       /\ sk' = r.sk
       /\ task' = [Settle(task) EXCEPT ![t] = r.tk]
    /\ out' = NoOut
    /\ UNCHANGED <<cpu, budget>>
    /\ UNCHANGED notNetVars

\* read: self.socket.rx_wait.wait() puts the caller to sleep on the RX queue.
ReadWait(t) ==
    /\ task[t].pc = "read_wait"
    /\ task' = [Settle(task) EXCEPT ![t].pc = "read_sleep"]
    /\ out' = NoOut
    /\ UNCHANGED <<sk, cpu, budget>>
    /\ UNCHANGED notNetVars

\* read: the pass of the loop after a wake-up.
ReadRecheck(t) ==
    /\ task[t].pc = "read_check"
    /\ LET r == ReadPass(sk, task[t], task[t].arg) IN
       /\ sk' = r.sk
       /\ task' = [Settle(task) EXCEPT ![t] = r.tk]
    /\ out' = NoOut
    /\ UNCHANGED <<cpu, budget>>
    /\ UNCHANGED notNetVars

\* write(fd, buf, len): up to the first tcp_sendmsg.
WriteCall(t, len) ==
    /\ InUser(t)
    /\ LET tk == Enter(t, "write", len)
           r == TcpSendmsg(sk, len)
       IN  IF sk.error # 0
           THEN /\ sk' = [sk EXCEPT !.error = 0]
                /\ task' = [Settle(task) EXCEPT
                       ![t] = Leave(tk, FileErr(FsErrorFromErrno(-sk.error)))]
           ELSE /\ Len(r.sk.rtx) <= MaxRtx
                /\ sk' = r.sk
                /\ task' = [Settle(task) EXCEPT ![t] =
                       IF r.ok
                       THEN Leave(tk, FileOk(r.n))
                       ELSE IF r.err = "WouldBlock"
                       THEN IF Nonblock(sk)
                            THEN Leave(tk, FileErr(FsWouldBlock))
                            ELSE [tk EXCEPT !.pc = "write_wait"]
                       ELSE Leave(tk, FileErr(FsErrorFromErrno(-ToErrno(r.err))))]
    /\ out' = NoOut
    /\ UNCHANGED <<cpu, budget>>
    /\ UNCHANGED notNetVars

\* write: self.socket.tx_wait.wait() puts the caller to sleep on the TX queue.
WriteWait(t) ==
    /\ task[t].pc = "write_wait"
    /\ task' = [Settle(task) EXCEPT ![t].pc = "write_sleep"]
    /\ out' = NoOut
    /\ UNCHANGED <<sk, cpu, budget>>
    /\ UNCHANGED notNetVars

\* write: the one retry of tcp_sendmsg after the wake-up; any error of the
\* retry is returned as WouldBlock.
WriteRetry(t) ==
    /\ task[t].pc = "write_retry"
    /\ LET r == TcpSendmsg(sk, task[t].arg) IN
       /\ Len(r.sk.rtx) <= MaxRtx
       /\ sk' = r.sk
       /\ task' = [Settle(task) EXCEPT ![t] =
              IF r.ok THEN Leave(task[t], FileOk(r.n))
                      ELSE Leave(task[t], FileErr(FsWouldBlock))]
    /\ out' = NoOut
    /\ UNCHANGED <<cpu, budget>>
    /\ UNCHANGED notNetVars



(***************************************************************************)
(*      read AND write, THE ERROR CHECK STEP BY STEP  (socket_file.rs)     *)
(***************************************************************************)

\* read and write: self.socket.error.load(Acquire) into the local err, taken
\* as a step of its own by a caller entering with operation op.  With no
\* error pending the call goes on as ReadCall and WriteCall describe it.
ErrorLoad(t, op, len) ==
    /\ InUser(t)
    /\ sk.error # 0
    /\ task' = [Settle(task) EXCEPT
           ![t] = [Enter(t, op, len) EXCEPT !.pc = "err_clear", !.err = sk.error]]
    /\ out' = NoOut
    /\ UNCHANGED <<sk, cpu, budget>>
    /\ UNCHANGED notNetVars

\* SocketFileOps::read, entered by task t
ReadLoad(t, buf_len) ==
    IF sk.error # 0 THEN ErrorLoad(t, "read", buf_len) ELSE ReadCall(t, buf_len)

\* SocketFileOps::write, entered by task t
WriteLoad(t, len) ==
    IF sk.error # 0 THEN ErrorLoad(t, "write", len) ELSE WriteCall(t, len)

\* read and write: self.socket.error.store(0, Release) and the return of the
\* error loaded before.
ErrorClear(t) ==
    /\ task[t].pc = "err_clear"
    /\ sk' = [sk EXCEPT !.error = 0]
    /\ task' = [Settle(task) EXCEPT
           ![t] = Leave(task[t], FileErr(FsErrorFromErrno(-task[t].err)))]
    /\ out' = NoOut
    /\ UNCHANGED <<cpu, budget>>
    /\ UNCHANGED notNetVars

(***************************************************************************)
(*                 SOCKET SYSTEM CALLS  (net/syscall.rs)                   *)
(***************************************************************************)

\* Socket::get_error: return the pending error and clear it.
GetError(s) == [sk |-> [s EXCEPT !.error = 0], err |-> s.error]

\* sys_connect up to and including tcp_connect: the state check, then the
\* handshake with initial sequence number iss, or tcp_connect's error when
\* fails.  A blocking caller goes on to the wait loop.
SysConnect(t, iss, fails) ==
    /\ InUser(t)
    /\ budget > 0
    /\ budget' = budget - 1
    /\ LET tk == Enter(t, "connect", 0) IN
       IF sk.state = "Established"
       THEN /\ task' = [Settle(task) EXCEPT ![t] = Leave(tk, Sys(EISCONN))]
            /\ UNCHANGED sk
       ELSE IF sk.state \in {"SynSent", "SynReceived"} /\ sk.nonblocking
       THEN /\ task' = [Settle(task) EXCEPT ![t] = Leave(tk, Sys(EALREADY))]
            /\ UNCHANGED sk
       ELSE IF fails
       THEN /\ task' = [Settle(task) EXCEPT
                   ![t] = Leave(tk, Sys(-ToErrno("NetworkUnreachable")))]
            /\ UNCHANGED sk
       ELSE /\ sk' = TcpConnect(sk, iss)
            /\ task' = [Settle(task) EXCEPT ![t] =
                   IF sk.nonblocking
                   THEN Leave(tk, Sys(EINPROGRESS))
                   ELSE [tk EXCEPT !.pc = "conn_check"]]
    /\ out' = NoOut
    /\ UNCHANGED cpu
    /\ UNCHANGED notNetVars

\* A wait loop that takes a sent SYN for a made connection.
ConnectDoneEarly(s) == s.state \in {"Established", "SynSent"}

\* sys_connect: the state in which the blocking wait loop returns 0.
ConnectDone(s) == s.state = "Established"

\* sys_connect: one pass of the blocking wait loop, up to the call of wait().
ConnCheck(t) ==
    /\ task[t].pc = "conn_check"
    /\ IF ConnectDone(sk)
       THEN /\ task' = [Settle(task) EXCEPT ![t] = Leave(task[t], Sys(0))]
            /\ UNCHANGED sk
       ELSE IF sk.state = "Closed"
       THEN LET g == GetError(sk) IN
            /\ sk' = g.sk
            /\ task' = [Settle(task) EXCEPT ![t] =
                   Leave(task[t], Sys(IF g.err # 0 THEN g.err ELSE ENOTCONN))]
       ELSE /\ task' = [Settle(task) EXCEPT ![t].pc = "conn_wait"]
            /\ UNCHANGED sk
    /\ out' = NoOut
    /\ UNCHANGED <<cpu, budget>>
    /\ UNCHANGED notNetVars

\* sys_connect: socket.connect_wait().wait()
ConnWait(t) ==
    /\ task[t].pc = "conn_wait"
    /\ task' = [Settle(task) EXCEPT ![t].pc = "conn_sleep"]
    /\ out' = NoOut
    /\ UNCHANGED <<sk, cpu, budget>>
    /\ UNCHANGED notNetVars

\* sys_listen
SysListen(t) ==
    /\ InUser(t)
    /\ sk' = [sk EXCEPT !.state = "Listen"]
    /\ task' = [Settle(task) EXCEPT ![t] = Leave(Enter(t, "listen", 0), Sys(0))]
    /\ out' = NoOut
    /\ UNCHANGED <<cpu, budget>>
    /\ UNCHANGED notNetVars

\* sys_shutdown(fd, how), first statement: set_eof for SHUT_RD, tcp_close (which
\* may fail) for SHUT_WR and SHUT_RDWR, EINVAL for any other how.
SysShutdown(t, how, fails) ==
    /\ InUser(t)
    /\ LET tk == Enter(t, "shutdown", how) IN
       IF how = 0
       THEN /\ sk' = [sk EXCEPT !.eof = TRUE]
            /\ task' = [Settle(task) EXCEPT ![t] = [tk EXCEPT !.pc = "shut_wake"]]
       ELSE IF how \in {1, 2}
       THEN IF fails
            THEN /\ task' = [Settle(task) EXCEPT
                        ![t] = Leave(tk, Sys(-ToErrno("NotConnected")))]
                 /\ UNCHANGED sk
            ELSE /\ sk' = TcpClose(sk)
                 /\ task' = [Settle(task) EXCEPT ![t] =
                        IF how = 2 THEN [tk EXCEPT !.pc = "shut_eof"]
                                   ELSE Leave(tk, Sys(0))]
       ELSE /\ task' = [Settle(task) EXCEPT ![t] = Leave(tk, Sys(EINVAL))]
            /\ UNCHANGED sk
    /\ out' = NoOut
    /\ UNCHANGED <<cpu, budget>>
    /\ UNCHANGED notNetVars

\* sys_shutdown(fd, 2): socket.set_eof() after tcp_close.
ShutdownEof(t) ==
    /\ task[t].pc = "shut_eof"
    /\ sk' = [sk EXCEPT !.eof = TRUE]
    /\ task' = [Settle(task) EXCEPT ![t].pc = "shut_wake"]
    /\ out' = NoOut
    /\ UNCHANGED <<cpu, budget>>
    /\ UNCHANGED notNetVars

\* sys_shutdown: wake_rx() for SHUT_RD, wake_all() for SHUT_RDWR, and return 0.
ShutdownWake(t) ==
    /\ task[t].pc = "shut_wake"
    /\ LET woke == IF task[t].arg = 0 THEN {"rx"} ELSE WaitQueues IN
       /\ task' = Wake([Settle(task) EXCEPT ![t] = Leave(task[t], Sys(0))], woke)
       /\ out' = [acks |-> 0, woke |-> woke]
    /\ UNCHANGED <<sk, cpu, budget>>
    /\ UNCHANGED notNetVars

\* sys_getsockopt: SO_ERROR (level 1, optname 4) fetches the pending error and,
\* given a buffer, stores its positive errno there; any option returns 0.
SysGetsockopt(t, so_error, has_buf) ==
    /\ InUser(t)
    /\ LET tk == Enter(t, "getsockopt", 0)
           g == GetError(sk)
       IN  IF so_error
           THEN /\ sk' = g.sk
                /\ task' = [Settle(task) EXCEPT ![t] =
                       [Leave(tk, Sys(0)) EXCEPT
                           !.optval = IF has_buf THEN -g.err ELSE 0]]
           ELSE /\ task' = [Settle(task) EXCEPT ![t] = Leave(tk, Sys(0))]
                /\ UNCHANGED sk
    /\ out' = NoOut
    /\ UNCHANGED <<cpu, budget>>
    /\ UNCHANGED notNetVars

\* sys_sendto: tcp_sendmsg, its byte count or its negated errno.
SysSendto(t, len) ==
    /\ InUser(t)
    /\ LET r == TcpSendmsg(sk, len) IN
       /\ Len(r.sk.rtx) <= MaxRtx
       /\ sk' = r.sk
       /\ task' = [Settle(task) EXCEPT ![t] =
              Leave(Enter(t, "sendto", len),
                    Sys(IF r.ok THEN r.n ELSE -ToErrno(r.err)))]
    /\ out' = NoOut
    /\ UNCHANGED <<cpu, budget>>
    /\ UNCHANGED notNetVars

\* Bits of a poll mask (crate::poll).
POLLIN == 1
POLLOUT == 4
POLLERR == 8
POLLHUP == 16
POLLRDNORM == 64
POLLWRNORM == 256

\* a | b on u16, bit by bit over the low n bits.
RECURSIVE BitOr(_, _, _)
BitOr(a, b, n) ==
    IF n = 0 THEN 0
    ELSE (IF a % 2 = 1 \/ b % 2 = 1 THEN 1 ELSE 0)
         + 2 * BitOr(a \div 2, b \div 2, n - 1)

\* Socket::poll_read: the receive queue holds data.
PollRead(s) == s.rx # <<>>

\* poll: the test for a pending error, a load that leaves the error stored.
PollErr(s) == s.error # 0

\* A hang-up test that looks at the EOF flag only.
PollHupOnEofOnly(s) == s.eof

\* poll: the two tests that set POLLHUP.
PollHup(s) == s.eof \/ s.state \in {"Closed", "TimeWait"}

\* The mask poll builds for socket s; tx_space is the result of
\* Socket::poll_write, true when the TX queue has space.
PollMask(s, tx_space) ==
    LET m1 == IF PollRead(s) THEN BitOr(0, BitOr(POLLIN, POLLRDNORM, 16), 16) ELSE 0
        m2 == IF tx_space THEN BitOr(m1, BitOr(POLLOUT, POLLWRNORM, 16), 16) ELSE m1
        m3 == IF PollErr(s) THEN BitOr(m2, POLLERR, 16) ELSE m2
        m4 == IF s.eof THEN BitOr(m3, POLLHUP, 16) ELSE m3
    IN  IF PollHup(s) THEN BitOr(m4, POLLHUP, 16) ELSE m4

PollRet(m) == [kind |-> "u16", val |-> m]

\* SocketFileOps::poll; pt tells whether the caller passed a poll table, on
\* which poll then registers the RX and the TX wait queue.  The table is the
\* caller's: the socket is only read.
SockPoll(t, pt, tx_space) ==
    /\ InUser(t)
    /\ task' = [Settle(task) EXCEPT ![t] =
           Leave(Enter(t, "poll", IF pt THEN 1 ELSE 0),
                 PollRet(PollMask(sk, tx_space)))]
    /\ out' = NoOut
    /\ UNCHANGED <<sk, cpu, budget>>
    /\ UNCHANGED notNetVars

(***************************************************************************)
(*                    ROUTING TABLE  (net/route.rs)                        *)
(***************************************************************************)

\* IPv4 addresses are IpBits wide (32 in the kernel).
IpBits == 2
IpAddrs == 0 .. (2 ^ IpBits - 1)

\* Routes the table holds at most.
MaxRoutes == 2

\* The network devices routes go out of.
Devs == {"A", "B", "C"}

\* Gateways handed to the table: none (0.0.0.0) and one router.
Gateways == {0, 2}

\* Ipv4Addr & Ipv4Addr, bit by bit over the low n bits.
RECURSIVE BitAnd(_, _, _)
BitAnd(a, b, n) ==
    IF n = 0 THEN 0
    ELSE (a % 2) * (b % 2) + 2 * BitAnd(a \div 2, b \div 2, n - 1)

\* u32::count_ones over the low n bits.
RECURSIVE CountOnes(_, _)
CountOnes(a, n) == IF n = 0 THEN 0 ELSE (a % 2) + CountOnes(a \div 2, n - 1)

\* Route flags.
RTF_UP == 1
RTF_GATEWAY == 2
RTF_HOST == 4
RTF_DEFAULT == 65536

\* Route::matches
RouteMatches(r, dest) == BitAnd(dest, r.netmask, IpBits) = BitAnd(r.dest, r.netmask, IpBits)

\* A gateway test that sees no gateway.
NeverGateway(r) == FALSE

\* Route::is_gateway
IsGateway(r) == r.gateway # 0

\* Route::prefix_len
PrefixLen(r) == CountOnes(r.netmask, IpBits)

\* A replacement test that also lets an equally long prefix replace the best.
ReplacesBestOnTie(best, prefix_len, best_prefix_len) ==
    best = 0 \/ prefix_len >= best_prefix_len

\* route_lookup: the test that makes a matching route the best so far; best is
\* the index of best_route, 0 for None.
ReplacesBest(best, prefix_len, best_prefix_len) ==
    best = 0 \/ prefix_len > best_prefix_len

\* route_lookup: the loop over the table from index i on; the index of
\* best_route when the loop ends, 0 for None.
RECURSIVE LookupScan(_, _, _, _, _)
LookupScan(table, dest, i, best, best_prefix_len) ==
    IF i > Len(table) THEN best
    ELSE IF RouteMatches(table[i], dest) /\
            ReplacesBest(best, PrefixLen(table[i]), best_prefix_len)
    THEN LookupScan(table, dest, i + 1, i, PrefixLen(table[i]))
    ELSE LookupScan(table, dest, i + 1, best, best_prefix_len)

NoLookup == [kind |-> "none", dest |-> 0, route |-> 0, dev |-> "A", next_hop |-> 0]

\* route_lookup(dest) on a table: Err(NoRoute), or Ok((dev, next_hop)) of
\* best_route, whose index the result also records.
LookupResult(table, dest) ==
    LET best == LookupScan(table, dest, 1, 0, 0) IN
    IF best = 0
    THEN [NoLookup EXCEPT !.kind = "NoRoute", !.dest = dest]
    ELSE [kind |-> "Ok", dest |-> dest, route |-> best, dev |-> table[best].dev,
          next_hop |-> IF IsGateway(table[best]) THEN table[best].gateway ELSE dest]

\* table.push(route), as the three add functions end.
PushRoute(route) ==
    /\ routes' = Append(routes, route)
    /\ rt' = NoLookup
    /\ UNCHANGED notRouteVars

\* add_interface_route
AddInterfaceRoute(dest, netmask, dev) ==
    PushRoute([dest |-> dest, netmask |-> netmask, gateway |-> 0, dev |-> dev,
               flags |-> RTF_UP, metric |-> 0])

\* add_default_route
AddDefaultRoute(gateway, dev) ==
    PushRoute([dest |-> 0, netmask |-> 0, gateway |-> gateway, dev |-> dev,
               flags |-> RTF_UP + RTF_GATEWAY + RTF_DEFAULT, metric |-> 100])

\* add_host_route
AddHostRoute(dest, gateway, dev) ==
    PushRoute([dest |-> dest, netmask |-> 2 ^ IpBits - 1, gateway |-> gateway,
               dev |-> dev,
               flags |-> RTF_UP + RTF_HOST + (IF gateway # 0 THEN RTF_GATEWAY ELSE 0),
               metric |-> 0])

\* clear_routes
ClearRoutes ==
    /\ routes' = <<>>
    /\ rt' = NoLookup
    /\ UNCHANGED notRouteVars

\* route_lookup
RouteLookup(dest) ==
    /\ rt' = LookupResult(routes, dest)
    /\ UNCHANGED routes
    /\ UNCHANGED notRouteVars

\* The routing table before any interface is up.
RouteIdle ==
    /\ routes = <<>>
    /\ rt = NoLookup

(***************************************************************************)
(*                     PID NAMESPACES  (ns/pid.rs)                         *)
(***************************************************************************)

\* pid_max of a namespace (32768 in the kernel).
PidMax == 3

\* PID namespaces that exist at most; 1 is INIT_PID_NS.
MaxPidNs == 3
PidNsIds == 1 .. MaxPidNs

\* Global task identifiers.
MaxTids == 2
Tids == 1 .. MaxTids

\* CPUs that call alloc_pid at the same time.
PidCpus == {"c1", "c2"}

MAX_PID_NS_LEVEL == 32

\* EAGAIN, as clone_ns and alloc_pid return it.
PidEagain == 11

EmptyMap == [k \in {} |-> 0]

\* A namespace slot no clone_ns has filled yet.
NoPidNs ==
    [live |-> FALSE, next_pid |-> 0, pid_max |-> 0, level |-> 0, parent |-> 0,
     child_reaper |-> 0, pid_map |-> EmptyMap, tid_map |-> EmptyMap,
     lock |-> "free"]

\* PidNamespace::new_init; parent 0 and child_reaper 0 stand for None.
NewInitPidNs ==
    [live |-> TRUE, next_pid |-> 1, pid_max |-> PidMax, level |-> 0, parent |-> 0,
     child_reaper |-> 0, pid_map |-> EmptyMap, tid_map |-> EmptyMap,
     lock |-> "free"]

\* The namespace PidNamespace::clone_ns builds under parent p (record pn).
ChildPidNs(p, pn) ==
    [live |-> TRUE, next_pid |-> 1, pid_max |-> pn.pid_max, level |-> pn.level + 1,
     parent |-> p, child_reaper |-> 0, pid_map |-> EmptyMap, tid_map |-> EmptyMap,
     lock |-> "free"]

\* BTreeMap::insert and BTreeMap::remove
MapInsert(map, k, v) == [x \in (DOMAIN map) \cup {k} |-> IF x = k THEN v ELSE map[x]]
MapRemove(map, k) == [x \in (DOMAIN map) \ {k} |-> map[x]]

\* A mutex that never makes anyone wait.
MutexIgnored(n) == TRUE

\* self.next_pid.lock() succeeds: nobody holds the mutex.
MutexFree(n) == n.lock = "free"

\* alloc_pid: the test for exhaustion.
PidExhausted(n) == n.next_pid >= n.pid_max

\* A register that takes every PID 1 for the reaper.
ReaperAlwaysUnset(n) == TRUE

\* register: reaper.is_none()
ReaperUnset(n) == n.child_reaper = 0

\* PidNamespace::register on namespace record n
NsRegister(n, pid, tid) ==
    [n EXCEPT !.pid_map = MapInsert(n.pid_map, pid, tid),
              !.tid_map = MapInsert(n.tid_map, tid, pid),
              !.child_reaper = IF pid = 1 /\ ReaperUnset(n) THEN tid
                               ELSE n.child_reaper]

\* PidNamespace::unregister on namespace record n
NsUnregister(n, tid) ==
    IF tid \in DOMAIN n.tid_map
    THEN [n EXCEPT !.tid_map = MapRemove(n.tid_map, tid),
                   !.pid_map = MapRemove(n.pid_map, n.tid_map[tid])]
    ELSE n

\* PidNamespace::get_tid and get_pid; 0 stands for None.
GetTid(n, pid) == IF pid \in DOMAIN n.pid_map THEN n.pid_map[pid] ELSE 0
GetPid(n, tid) == IF tid \in DOMAIN n.tid_map THEN n.tid_map[tid] ELSE 0

\* task_pid_nr_ns: get_pid(tid).unwrap_or(0)
TaskPidNrNs(tid, n) == GetPid(n, tid)

\* find_task_by_pid_ns
FindTaskByPidNs(pid, n) == GetTid(n, pid)

NoPidRet == [op |-> "none", ns |-> 0, tid |-> 0, ok |-> TRUE, val |-> 0]

PidOk(op, ns, tid, val) == [op |-> op, ns |-> ns, tid |-> tid, ok |-> TRUE, val |-> val]
PidErr(op, ns, tid, e) == [op |-> op, ns |-> ns, tid |-> tid, ok |-> FALSE, val |-> e]

IdlePidCpu == [pc |-> "idle", ns |-> 0, pid |-> 0]

\* The namespace slots clone_ns has not filled.
FreePidNsIds == {i \in PidNsIds : ~pidns[i].live}

\* PidNamespace::clone_ns(parent): the child takes the lowest free slot.
PidCloneNs(p) ==
    /\ pidns[p].live
    /\ FreePidNsIds # {}
    /\ LET i == CHOOSE x \in FreePidNsIds : \A y \in FreePidNsIds : x <= y IN
       IF pidns[p].level >= MAX_PID_NS_LEVEL
       THEN /\ pidret' = PidErr("clone_ns", p, 0, PidEagain)
            /\ UNCHANGED pidns
       ELSE /\ pidns' = [pidns EXCEPT ![i] = ChildPidNs(p, pidns[p])]
            /\ pidret' = PidOk("clone_ns", p, 0, i)
    /\ UNCHANGED <<pidcpu, pid_log>>
    /\ UNCHANGED notPidVars

\* alloc_pid on CPU c: self.next_pid.lock()
AllocPidLock(c, ns) ==
    /\ pidcpu[c].pc = "idle"
    /\ pidns[ns].live
    /\ MutexFree(pidns[ns])
    /\ pidns' = [pidns EXCEPT ![ns].lock = c]
    /\ pidcpu' = [pidcpu EXCEPT ![c] = [pc |-> "check", ns |-> ns, pid |-> 0]]
    /\ pidret' = NoPidRet
    /\ UNCHANGED pid_log
    /\ UNCHANGED notPidVars

\* alloc_pid on CPU c: the test of *next; Err(EAGAIN) drops the guard, else
\* pid = *next.
AllocPidCheck(c) ==
    /\ pidcpu[c].pc = "check"
    /\ LET ns == pidcpu[c].ns IN
       IF PidExhausted(pidns[ns])
       THEN /\ pidns' = [pidns EXCEPT ![ns].lock = "free"]
            /\ pidcpu' = [pidcpu EXCEPT ![c] = IdlePidCpu]
            /\ pidret' = PidErr("alloc_pid", ns, 0, PidEagain)
       ELSE /\ pidcpu' = [pidcpu EXCEPT ![c].pc = "incr",
                                        ![c].pid = pidns[ns].next_pid]
            /\ pidret' = NoPidRet
            /\ UNCHANGED pidns
    /\ UNCHANGED pid_log
    /\ UNCHANGED notPidVars

\* alloc_pid on CPU c: *next += 1, Ok(pid), and the guard is dropped.
AllocPidIncr(c) ==
    /\ pidcpu[c].pc = "incr"
    /\ LET ns == pidcpu[c].ns IN
       /\ pidns' = [pidns EXCEPT ![ns].next_pid = pidns[ns].next_pid + 1,
                                 ![ns].lock = "free"]
       /\ pid_log' = [pid_log EXCEPT ![ns] = Append(pid_log[ns], pidcpu[c].pid)]
       /\ pidret' = PidOk("alloc_pid", ns, 0, pidcpu[c].pid)
    /\ pidcpu' = [pidcpu EXCEPT ![c] = IdlePidCpu]
    /\ UNCHANGED notPidVars

\* The namespaces register_task_pids walks from ns: ns, its parent, and so on
\* up to the root.
RECURSIVE PidNsChain(_, _)
PidNsChain(P, ns) == IF ns = 0 THEN <<>> ELSE <<ns>> \o PidNsChain(P, P[ns].parent)

\* register_task_pids, the walk over the ancestors in chain from index i on:
\* a PID is allocated and registered where alloc_pid succeeds, and a namespace
\* where it fails is passed over.  w holds the namespaces and the log.
RECURSIVE RegisterWalk(_, _, _, _)
RegisterWalk(w, tid, chain, i) ==
    IF i > Len(chain) THEN w
    ELSE LET ns == chain[i]
             n == w.ns[ns]
         IN  IF PidExhausted(n)
             THEN RegisterWalk(w, tid, chain, i + 1)
             ELSE RegisterWalk(
                      [ns |-> [w.ns EXCEPT ![ns] =
                                  NsRegister([n EXCEPT !.next_pid = n.next_pid + 1],
                                             n.next_pid, tid)],
                       log |-> [w.log EXCEPT ![ns] = Append(w.log[ns], n.next_pid)]],
                      tid, chain, i + 1)

\* register_task_pids(tid, pid_ns), called while no CPU is inside alloc_pid of
\* a namespace it walks.
RegisterTaskPids(tid, ns) ==
    /\ pidns[ns].live
    /\ \A a \in PidNsIds : pidns[a].lock = "free"
    /\ IF PidExhausted(pidns[ns])
       THEN /\ pidret' = PidErr("register_task_pids", ns, tid, PidEagain)
            /\ UNCHANGED <<pidns, pid_log>>
       ELSE LET w == RegisterWalk([ns |-> pidns, log |-> pid_log], tid,
                                  PidNsChain(pidns, ns), 1)
            IN  /\ pidns' = w.ns
                /\ pid_log' = w.log
                /\ pidret' = PidOk("register_task_pids", ns, tid, pidns[ns].next_pid)
    /\ UNCHANGED pidcpu
    /\ UNCHANGED notPidVars

\* unregister_task_pids(tid, pid_ns)
UnregisterTaskPids(tid, ns) ==
    /\ pidns[ns].live
    /\ LET chain == PidNsChain(pidns, ns) IN
       pidns' = [a \in PidNsIds |->
                    IF \E i \in 1 .. Len(chain) : chain[i] = a
                    THEN NsUnregister(pidns[a], tid) ELSE pidns[a]]
    /\ pidret' = NoPidRet
    /\ UNCHANGED <<pidcpu, pid_log>>
    /\ UNCHANGED notPidVars

\* PidNamespace::register(pid, tid), called directly
PidRegister(ns, pid, tid) ==
    /\ pidns[ns].live
    /\ pidns' = [pidns EXCEPT ![ns] = NsRegister(pidns[ns], pid, tid)]
    /\ pidret' = NoPidRet
    /\ UNCHANGED <<pidcpu, pid_log>>
    /\ UNCHANGED notPidVars

\* PidNamespace::unregister(tid), called directly
PidUnregister(ns, tid) ==
    /\ pidns[ns].live
    /\ pidns' = [pidns EXCEPT ![ns] = NsUnregister(pidns[ns], tid)]
    /\ pidret' = NoPidRet
    /\ UNCHANGED <<pidcpu, pid_log>>
    /\ UNCHANGED notPidVars

\* Only INIT_PID_NS exists and nothing was allocated.
PidIdle ==
    /\ pidns = [i \in PidNsIds |-> IF i = 1 THEN NewInitPidNs ELSE NoPidNs]
    /\ pidcpu = [c \in PidCpus |-> IdlePidCpu]
    /\ pid_log = [i \in PidNsIds |-> <<>>]
    /\ pidret = NoPidRet

(***************************************************************************)
(*                    USER NAMESPACES  (ns/user.rs)                        *)
(***************************************************************************)

\* UIDs and GIDs are IdBits wide (32 in the kernel); IdMax is u32::MAX.
IdBits == 2
IdMax == 2 ^ IdBits - 1
Ids == 0 .. IdMax

\* None of an Option<u32>.
NoId == -1

\* User namespaces that exist at most; 1 is INIT_USER_NS.
MaxUserNs == 3
UserNsIds == 1 .. MaxUserNs

MAX_USER_NS_LEVEL == 32

\* EPERM and EAGAIN, as set_mapping and clone_ns return them.
UserEperm == 1
UserEagain == 11

\* u32::saturating_add
SaturatingAdd(a, b) == IF a + b > IdMax THEN IdMax ELSE a + b

\* UidGidMap::map_id_down over the extents from index i on
RECURSIVE MapIdDownFrom(_, _, _)
MapIdDownFrom(extents, id, i) ==
    IF i > Len(extents) THEN NoId
    ELSE LET ext == extents[i] IN
         IF id >= ext.first /\ id < SaturatingAdd(ext.first, ext.count)
         THEN SaturatingAdd(ext.lower_first, id - ext.first)
         ELSE MapIdDownFrom(extents, id, i + 1)

\* UidGidMap::map_id_down
MapIdDown(extents, id) == MapIdDownFrom(extents, id, 1)

\* UidGidMap::map_id_up over the extents from index i on
RECURSIVE MapIdUpFrom(_, _, _)
MapIdUpFrom(extents, id, i) ==
    IF i > Len(extents) THEN NoId
    ELSE LET ext == extents[i] IN
         IF id >= ext.lower_first /\ id < SaturatingAdd(ext.lower_first, ext.count)
         THEN SaturatingAdd(ext.first, id - ext.lower_first)
         ELSE MapIdUpFrom(extents, id, i + 1)

\* UidGidMap::map_id_up
MapIdUp(extents, id) == MapIdUpFrom(extents, id, 1)

\* UidGidMap::set_mapping on a map holding extents: the extents it leaves and
\* its result.
SetMapping(extents, new_extents) ==
    IF extents # <<>>
    THEN [extents |-> extents, ok |-> FALSE, err |-> UserEperm]
    ELSE [extents |-> new_extents, ok |-> TRUE, err |-> 0]

\* UidGidMap::new_identity: set_mapping of one extent on a new map.
NewIdentity ==
    SetMapping(<<>>, <<[first |-> 0, lower_first |-> 0, count |-> IdMax]>>).extents

\* A namespace slot no clone_ns has filled yet.
NoUserNs ==
    [live |-> FALSE, uid_map |-> <<>>, gid_map |-> <<>>, level |-> 0, parent |-> 0,
     uid_was_set |-> FALSE, gid_was_set |-> FALSE]

\* UserNamespace::new_init; uid_was_set and gid_was_set record that a
\* set_mapping call on the map returned Ok.
NewInitUserNs ==
    [live |-> TRUE, uid_map |-> NewIdentity, gid_map |-> NewIdentity, level |-> 0,
     parent |-> 0, uid_was_set |-> TRUE, gid_was_set |-> TRUE]

\* The namespace UserNamespace::clone_ns builds under parent p (record pn).
ChildUserNs(p, pn) ==
    [live |-> TRUE, uid_map |-> <<>>, gid_map |-> <<>>, level |-> pn.level + 1,
     parent |-> p, uid_was_set |-> FALSE, gid_was_set |-> FALSE]

NoIdRet == [op |-> "none", ns |-> 0, id |-> 0, ok |-> TRUE, val |-> 0]

IdRet(op, ns, id, ok, val) == [op |-> op, ns |-> ns, id |-> id, ok |-> ok, val |-> val]

FreeUserNsIds == {i \in UserNsIds : ~userns[i].live}

\* UserNamespace::clone_ns(parent): the child takes the lowest free slot.
UserCloneNs(p) ==
    /\ userns[p].live
    /\ FreeUserNsIds # {}
    /\ LET i == CHOOSE x \in FreeUserNsIds : \A y \in FreeUserNsIds : x <= y IN
       IF userns[p].level >= MAX_USER_NS_LEVEL
       THEN /\ idret' = IdRet("clone_ns", p, 0, FALSE, UserEagain)
            /\ UNCHANGED userns
       ELSE /\ userns' = [userns EXCEPT ![i] = ChildUserNs(p, userns[p])]
            /\ idret' = IdRet("clone_ns", p, 0, TRUE, i)
    /\ UNCHANGED notUserVars

\* ns.uid_map.set_mapping(new_extents)
SetUidMapping(ns, new_extents) ==
    /\ userns[ns].live
    /\ LET r == SetMapping(userns[ns].uid_map, new_extents) IN
       /\ userns' = [userns EXCEPT ![ns].uid_map = r.extents,
                                   ![ns].uid_was_set = @ \/ r.ok]
       /\ idret' = IdRet("set_uid_map", ns, 0, r.ok, r.err)
    /\ UNCHANGED notUserVars

\* ns.gid_map.set_mapping(new_extents)
SetGidMapping(ns, new_extents) ==
    /\ userns[ns].live
    /\ LET r == SetMapping(userns[ns].gid_map, new_extents) IN
       /\ userns' = [userns EXCEPT ![ns].gid_map = r.extents,
                                   ![ns].gid_was_set = @ \/ r.ok]
       /\ idret' = IdRet("set_gid_map", ns, 0, r.ok, r.err)
    /\ UNCHANGED notUserVars

\* UserNamespace::to_kuid
ToKuid(ns, uid) ==
    /\ userns[ns].live
    /\ idret' = IdRet("to_kuid", ns, uid, TRUE, MapIdDown(userns[ns].uid_map, uid))
    /\ UNCHANGED userns
    /\ UNCHANGED notUserVars

\* UserNamespace::from_kuid
FromKuid(ns, kuid) ==
    /\ userns[ns].live
    /\ idret' = IdRet("from_kuid", ns, kuid, TRUE, MapIdUp(userns[ns].uid_map, kuid))
    /\ UNCHANGED userns
    /\ UNCHANGED notUserVars

\* UserNamespace::to_kgid
ToKgid(ns, gid) ==
    /\ userns[ns].live
    /\ idret' = IdRet("to_kgid", ns, gid, TRUE, MapIdDown(userns[ns].gid_map, gid))
    /\ UNCHANGED userns
    /\ UNCHANGED notUserVars

\* UserNamespace::from_kgid
FromKgid(ns, kgid) ==
    /\ userns[ns].live
    /\ idret' = IdRet("from_kgid", ns, kgid, TRUE, MapIdUp(userns[ns].gid_map, kgid))
    /\ UNCHANGED userns
    /\ UNCHANGED notUserVars

\* Only INIT_USER_NS exists.
UserIdle ==
    /\ userns = [i \in UserNsIds |-> IF i = 1 THEN NewInitUserNs ELSE NoUserNs]
    /\ idret = NoIdRet

(***************************************************************************)
(*                    EXT4, READ-ONLY  (fs/ext4.rs)                        *)
(***************************************************************************)

\* Magic numbers, the root inode, the inode flag for extents and the
\* incompatible-feature bits.
EXT4_SUPER_MAGIC == 61267
EXT4_ROOT_INO == 2
EXT4_EXT_MAGIC == 62218
EXT4_EXTENTS_FL == 524288
EXT4_FEATURE_INCOMPAT_COMPRESSION == 1
EXT4_FEATURE_INCOMPAT_FILETYPE == 2
EXT4_FEATURE_INCOMPAT_RECOVER == 4
EXT4_FEATURE_INCOMPAT_JOURNAL_DEV == 8
EXT4_FEATURE_INCOMPAT_EXTENTS == 64
EXT4_FEATURE_INCOMPAT_64BIT == 128
EXT4_FEATURE_INCOMPAT_FLEX_BG == 512
EXT4_FEATURE_INCOMPAT_INLINE_DATA == 32768
EXT4_FEATURE_INCOMPAT_ENCRYPT == 65536

\* Bytes of a page of the page cache.
PAGE_SIZE == 4096

\* errno of a read-only file system; writepage returns it negated.
EROFS == 30

\* Result<_, FsError>: Ok(val), Err(err), and a panic of the kernel.
ExtOk(v) == [ok |-> TRUE, val |-> v, err |-> "none"]
ExtErr(e) == [ok |-> FALSE, val |-> 0, err |-> e]
ExtPanic == ExtErr("panic")

\* A block of zeros read as a node of an extent tree, as an inode and as a
\* group descriptor.
ZeroNode == [eh_magic |-> 0, eh_depth |-> 0, entries |-> <<>>]
ZeroInode == [i_flags |-> 0, i_block |-> ZeroNode]
ZeroDesc == [bg_inode_table |-> 0]

\* read_block of block b on a device whose blocks hold the nodes of blocks;
\* any other block reads as zeros.
ReadBlock(blocks, b) == IF b \in DOMAIN blocks THEN blocks[b] ELSE ZeroNode

\* extent_tree_search: the scan of a leaf from entry i on.
RECURSIVE LeafScan(_, _, _)
LeafScan(entries, logical_block, i) ==
    IF i > Len(entries) THEN ExtErr("NotFound")
    ELSE LET start_block == entries[i].ee_block
             len == BitAnd(entries[i].ee_len, 32767, 16)
         IN  IF logical_block >= start_block /\ logical_block < start_block + len
             THEN ExtOk(entries[i].ee_start + (logical_block - start_block))
             ELSE LeafScan(entries, logical_block, i + 1)

\* An index test that looks at the start of the index only.
IndexStartsBefore(entries, i, logical_block) ==
    logical_block >= entries[i].ei_block

\* extent_tree_search: index i covers the block.  After the last index
\* next_idx_block is u64::MAX, which is above every block a page maps to.
IndexCovers(entries, i, logical_block) ==
    /\ logical_block >= entries[i].ei_block
    /\ i + 1 <= Len(entries) => logical_block < entries[i + 1].ei_block

\* extent_tree_search on a node, and its scan of an internal node from index i
\* on; io_fails tells that the page cache cannot provide the child's page.
RECURSIVE ExtentTreeSearch(_, _, _, _)
RECURSIVE IndexScan(_, _, _, _, _)
ExtentTreeSearch(blocks, node, logical_block, io_fails) ==
    IF node.eh_magic # EXT4_EXT_MAGIC THEN ExtErr("IoError")
    ELSE IF node.eh_depth = 0 THEN LeafScan(node.entries, logical_block, 1)
    ELSE IndexScan(blocks, node.entries, logical_block, 1, io_fails)

IndexScan(blocks, entries, logical_block, i, io_fails) ==
    IF i > Len(entries) THEN ExtErr("NotFound")
    ELSE IF IndexCovers(entries, i, logical_block)
    THEN IF io_fails THEN ExtErr("IoError")
         ELSE ExtentTreeSearch(blocks, ReadBlock(blocks, entries[i].ei_leaf),
                               logical_block, io_fails)
    ELSE IndexScan(blocks, entries, logical_block, i + 1, io_fails)

\* extent_map_block
ExtentMapBlock(blocks, inode, logical_block, io_fails) ==
    IF BitAnd(inode.i_flags, EXT4_EXTENTS_FL, 24) = 0
    THEN ExtErr("NotSupported")
    ELSE ExtentTreeSearch(blocks, inode.i_block, logical_block, io_fails)

\* A feature mask that lets encrypted file systems through.
UnsupportedWithoutEncrypt ==
    BitOr(BitOr(EXT4_FEATURE_INCOMPAT_COMPRESSION,
                EXT4_FEATURE_INCOMPAT_INLINE_DATA, 24),
          EXT4_FEATURE_INCOMPAT_JOURNAL_DEV, 24)

\* read_superblock: unsupported_features
UnsupportedFeatures ==
    BitOr(BitOr(BitOr(EXT4_FEATURE_INCOMPAT_COMPRESSION,
                      EXT4_FEATURE_INCOMPAT_ENCRYPT, 24),
                EXT4_FEATURE_INCOMPAT_INLINE_DATA, 24),
          EXT4_FEATURE_INCOMPAT_JOURNAL_DEV, 24)

\* The driver before a mount: no superblock, no Ext4SbData.
NoFs ==
    [mounted |-> FALSE, block_size |-> 0, inodes_per_group |-> 0,
     group_count |-> 0, group_descs |-> <<>>, inode_cache |-> EmptyMap, root |-> 0]

\* read_superblock on image im: the result and the Ext4SbData it builds.
\* overflow_checks tells whether the build panics on a shift by 32 or more;
\* the images keep 1024 << (s_log_block_size % 32) within u32.
ReadSuperblock(im, io_fails, overflow_checks) ==
    LET sb == im.sb IN
    IF io_fails THEN [ret |-> ExtErr("IoError"), fs |-> NoFs]
    ELSE IF sb.s_magic # EXT4_SUPER_MAGIC THEN [ret |-> ExtErr("IoError"), fs |-> NoFs]
    ELSE IF BitAnd(sb.s_feature_incompat, UnsupportedFeatures, 24) # 0
    THEN [ret |-> ExtErr("NotSupported"), fs |-> NoFs]
    ELSE IF sb.s_log_block_size >= 32 /\ overflow_checks
    THEN [ret |-> ExtPanic, fs |-> NoFs]
    ELSE IF sb.s_blocks_per_group = 0 THEN [ret |-> ExtPanic, fs |-> NoFs]
    ELSE [ret |-> ExtOk(0),
          fs |-> [NoFs EXCEPT
                    !.block_size = 1024 * 2 ^ (sb.s_log_block_size % 32),
                    !.inodes_per_group = sb.s_inodes_per_group,
                    !.group_count = (sb.s_blocks_count + sb.s_blocks_per_group - 1)
                                        \div sb.s_blocks_per_group]]

\* load_group_descs: the first group_count descriptors of the table after the
\* superblock (s_desc_size is 0 in the images, so a descriptor takes 32 bytes
\* and a block holds at least 32 of them); past the table the device reads as
\* zeros.
LoadGroupDescs(f, im, io_fails) ==
    IF f.group_count > 0 /\ io_fails THEN [ret |-> ExtErr("IoError"), fs |-> f]
    ELSE [ret |-> ExtOk(0),
          fs |-> [f EXCEPT !.group_descs =
                     [g \in 1 .. f.group_count |->
                         IF g <= Len(im.gdt) THEN im.gdt[g] ELSE ZeroDesc]]]

\* The inode the inode table of image im holds for number ino.
InodeOnDisk(im, ino) == IF ino \in DOMAIN im.inodes THEN im.inodes[ino] ELSE ZeroInode

\* read_inode: the result, the inode and the driver state with its cache.
ReadInode(f, im, ino, io_fails) ==
    IF ino \in DOMAIN f.inode_cache
    THEN [ret |-> ExtOk(0), inode |-> f.inode_cache[ino], fs |-> f]
    ELSE IF f.inodes_per_group = 0
    THEN [ret |-> ExtPanic, inode |-> ZeroInode, fs |-> f]
    ELSE LET group == (ino - 1) \div f.inodes_per_group IN
         IF group + 1 > Len(f.group_descs)
         THEN [ret |-> ExtErr("IoError"), inode |-> ZeroInode, fs |-> f]
         ELSE IF io_fails
         THEN [ret |-> ExtErr("IoError"), inode |-> ZeroInode, fs |-> f]
         ELSE [ret |-> ExtOk(0), inode |-> InodeOnDisk(im, ino),
               fs |-> [f EXCEPT !.inode_cache =
                          MapInsert(f.inode_cache, ino, InodeOnDisk(im, ino))]]

\* ext4_mount_dev: the result and the superblock data of the superblock it
\* returns; the data built before an error is dropped with the error.
MountDev(im, io_fails, overflow_checks) ==
    LET r1 == ReadSuperblock(im, io_fails, overflow_checks)
        r2 == LoadGroupDescs(r1.fs, im, io_fails)
        r3 == ReadInode(r2.fs, im, EXT4_ROOT_INO, io_fails)
    IN  IF ~r1.ret.ok THEN [ret |-> r1.ret, fs |-> NoFs]
        ELSE IF ~r2.ret.ok THEN [ret |-> r2.ret, fs |-> NoFs]
        ELSE IF ~r3.ret.ok THEN [ret |-> r3.ret, fs |-> NoFs]
        ELSE [ret |-> ExtOk(0),
              fs |-> [r3.fs EXCEPT !.mounted = TRUE, !.root = EXT4_ROOT_INO]]

\* What an operation of the driver returned: the operation, its inode and
\* argument, the result, and the block whose contents the caller's buffer
\* holds (NoData while nothing was copied into it).
NoData == -1
NoFsRet ==
    [op |-> "none", ino |-> 0, arg |-> 0, ok |-> TRUE, val |-> 0, err |-> "none",
     buf |-> NoData]

FsRet(op, ino, arg, r, buf) ==
    [op |-> op, ino |-> ino, arg |-> arg, ok |-> r.ok, val |-> r.val, err |-> r.err,
     buf |-> buf]

\* ext4_mount_dev on the device, once.
Ext4Mount(io_fails, overflow_checks) ==
    /\ ~fs.mounted
    /\ LET r == MountDev(img, io_fails, overflow_checks) IN
       /\ fs' = r.fs
       /\ fsret' = FsRet("mount", 0, 0, r.ret, NoData)
    /\ UNCHANGED <<img, walk>>
    /\ UNCHANGED notExt4Vars

\* extent_map_block on the inode the image holds for ino.
Ext4MapBlock(ino, logical_block) ==
    /\ fs.mounted
    /\ fsret' = FsRet("extent_map_block", ino, logical_block,
                      ExtentMapBlock(img.blocks, InodeOnDisk(img, ino),
                                     logical_block, FALSE),
                      NoData)
    /\ UNCHANGED <<img, fs, walk>>
    /\ UNCHANGED notExt4Vars

\* Ext4InodeOps::readpage on the VFS inode of ino with a buffer of one page.
Ext4Readpage(ino, page_offset, io_fails) ==
    /\ fs.mounted
    /\ LET r == ReadInode(fs, img, ino, io_fails)
           logical_block == (page_offset * PAGE_SIZE) \div fs.block_size
           m == ExtentMapBlock(img.blocks, r.inode, logical_block, io_fails)
       IN  /\ fs' = r.fs
           /\ fsret' =
                IF ~r.ret.ok THEN FsRet("readpage", ino, page_offset, r.ret, NoData)
                ELSE IF ~m.ok THEN FsRet("readpage", ino, page_offset, m, NoData)
                ELSE IF io_fails
                THEN FsRet("readpage", ino, page_offset, ExtErr("IoError"), NoData)
                ELSE FsRet("readpage", ino, page_offset,
                           ExtOk(Min(PAGE_SIZE, fs.block_size)), m.val)
    /\ UNCHANGED <<img, walk>>
    /\ UNCHANGED notExt4Vars

\* Ext4AddressSpaceOps::writepage
Ext4Writepage(page_offset) ==
    /\ fsret' = FsRet("writepage", 0, page_offset,
                      [ok |-> FALSE, val |-> -EROFS, err |-> "errno"], NoData)
    /\ UNCHANGED <<img, fs, walk>>
    /\ UNCHANGED notExt4Vars

\* Ext4SuperOps::alloc_inode
Ext4AllocInode ==
    /\ fs.mounted
    /\ fsret' = FsRet("alloc_inode", 0, 0, ExtErr("NotSupported"), NoData)
    /\ UNCHANGED <<img, fs, walk>>
    /\ UNCHANGED notExt4Vars


\* No search in progress.
NoWalk ==
    [pc |-> "idle", ino |-> 0, logical_block |-> 0, node |-> ZeroNode,
     root_depth |-> 0, descents |-> 0, ret |-> ExtOk(0)]

\* extent_tree_search: the first index of an internal node that covers the
\* block, 0 when none does.
FirstCovering(entries, logical_block) ==
    LET covering == {i \in 1 .. Len(entries) : IndexCovers(entries, i, logical_block)}
    IN  IF covering = {} THEN 0
        ELSE CHOOSE i \in covering : \A j \in covering : i <= j

\* extent_map_block on the inode the image holds for ino, up to its call of
\* extent_tree_search on the root node in i_block.
ExtentSearchCall(ino, logical_block) ==
    /\ fs.mounted
    /\ walk.pc # "search"
    /\ LET inode == InodeOnDisk(img, ino) IN
       walk' = IF BitAnd(inode.i_flags, EXT4_EXTENTS_FL, 24) = 0
               THEN [NoWalk EXCEPT !.pc = "done", !.ino = ino,
                                   !.logical_block = logical_block,
                                   !.ret = ExtErr("NotSupported")]
               ELSE [NoWalk EXCEPT !.pc = "search", !.ino = ino,
                                   !.logical_block = logical_block,
                                   !.node = inode.i_block,
                                   !.root_depth = inode.i_block.eh_depth]
    /\ UNCHANGED <<img, fs, fsret>>
    /\ UNCHANGED notExt4Vars

\* One invocation of extent_tree_search, on the node the search has reached:
\* it returns, or it reads the child block and calls itself on it.
ExtentSearchStep(io_fails) ==
    /\ walk.pc = "search"
    /\ LET node == walk.node
           i == FirstCovering(node.entries, walk.logical_block)
       IN  walk' =
             IF node.eh_magic # EXT4_EXT_MAGIC
             THEN [walk EXCEPT !.pc = "done", !.ret = ExtErr("IoError")]
             ELSE IF node.eh_depth = 0
             THEN [walk EXCEPT !.pc = "done",
                       !.ret = LeafScan(node.entries, walk.logical_block, 1)]
             ELSE IF i = 0
             THEN [walk EXCEPT !.pc = "done", !.ret = ExtErr("NotFound")]
             ELSE IF io_fails
             THEN [walk EXCEPT !.pc = "done", !.ret = ExtErr("IoError")]
             ELSE [walk EXCEPT !.node = ReadBlock(img.blocks, node.entries[i].ei_leaf),
                               !.descents = walk.descents + 1]
    /\ UNCHANGED <<img, fs, fsret>>
    /\ UNCHANGED notExt4Vars

\* The superblock of a small file system with the usual features: blocks of
\* 1024 << log bytes, one block group.
GoodSb(log) ==
    [s_magic |-> EXT4_SUPER_MAGIC,
     s_feature_incompat |-> EXT4_FEATURE_INCOMPAT_FILETYPE
                            + EXT4_FEATURE_INCOMPAT_EXTENTS
                            + EXT4_FEATURE_INCOMPAT_64BIT
                            + EXT4_FEATURE_INCOMPAT_FLEX_BG,
     s_log_block_size |-> log, s_blocks_per_group |-> 8,
     s_inodes_per_group |-> 16, s_blocks_count |-> 8]

\* Nodes of an extent tree: a leaf of extents, an internal node of indices.
Leaf(extents) == [eh_magic |-> EXT4_EXT_MAGIC, eh_depth |-> 0, entries |-> extents]
Internal(depth, indices) ==
    [eh_magic |-> EXT4_EXT_MAGIC, eh_depth |-> depth, entries |-> indices]

\* The root directory: one block.
RootInode ==
    [i_flags |-> EXT4_EXTENTS_FL,
     i_block |-> Leaf(<<[ee_block |-> 0, ee_len |-> 1, ee_start |-> 50]>>)]

\* The inode number of the file whose extent tree varies.
FileIno == 12

\* An image with superblock sb whose file has the flags i_flags and an extent
\* tree with the given root in i_block and the other nodes in blocks.
Image(sb, i_flags, root, blocks) ==
    [sb |-> sb, gdt |-> <<[bg_inode_table |-> 5]>>,
     inodes |-> (EXT4_ROOT_INO :> RootInode)
                @@ (FileIno :> [i_flags |-> i_flags, i_block |-> root]),
     blocks |-> blocks]

\* A device without a file system on it and nothing mounted.
NoImage ==
    [sb |-> [s_magic |-> 0, s_feature_incompat |-> 0, s_log_block_size |-> 0,
             s_blocks_per_group |-> 0, s_inodes_per_group |-> 0,
             s_blocks_count |-> 0],
     gdt |-> <<>>, inodes |-> EmptyMap, blocks |-> EmptyMap]

Ext4Idle ==
    /\ img = NoImage
    /\ fs = NoFs
    /\ fsret = NoFsRet
    /\ walk = NoWalk

(***************************************************************************)
(*                           SPECIFICATIONS                                *)
(***************************************************************************)

IdleCpu == [pc |-> "idle"]

\* The network variables while only the packet buffer is exercised.
NetIdle ==
    /\ sk = NewSocket(FALSE)
    /\ task = [t \in Tasks |-> IdleTask]
    /\ out = NoOut
    /\ cpu = IdleCpu
    /\ budget = 0

\* The packet-buffer variables while only the network is exercised.
SkbIdle ==
    /\ skb = NoSkb
    /\ skbtag = FreshTags
    /\ debug_assertions = FALSE
    /\ panicked = FALSE

\* Packet buffer: no buffer yet, either build.
InitSkb ==
    /\ skb = NoSkb
    /\ skbtag = FreshTags
    /\ debug_assertions \in BOOLEAN
    /\ panicked = FALSE
    /\ NetIdle
    /\ RouteIdle
    /\ PidIdle
    /\ UserIdle
    /\ Ext4Idle

NextSkb ==
    \/ \E h \in SkbArgs, n \in SkbAllocLens : SkbAlloc(h, n)
    \/ \E n \in SkbArgs : SkbReserve(n)
    \/ \E n \in SkbArgs : SkbPush(n)
    \/ \E n \in SkbArgs : SkbPull(n)
    \/ \E n \in SkbArgs : SkbPut(n)
    \/ \E n \in SkbArgs : SkbPutSlice(n)
    \/ \E n \in SkbArgs : SkbTrim(n)
    \/ \E n \in SkbArgs : SkbSetLen(n)
    \/ \E n \in SkbArgs : SkbReset(n)

SpecSkb == InitSkb /\ [][NextSkb]_vars

\* A packet buffer that is allocated, tagged by its users and reset.
InitTag ==
    /\ SkbIdle
    /\ NetIdle
    /\ RouteIdle
    /\ PidIdle
    /\ UserIdle
    /\ Ext4Idle

NextTag ==
    \/ \E h \in {0, MaxSkbArg}, n \in {0, MaxSkbArg} : SkbAlloc(h, n)
    \/ \E f \in DOMAIN TagValues : \E v \in TagValues[f] : SkbStoreTag(f, v)
    \/ SkbSetNetworkHeader
    \/ \E o \in {0, MaxSkbArg} : SkbSetNetworkHeaderOffset(o)
    \/ \E o \in {0, MaxSkbArg} : SkbSetTransportHeader(o)
    \/ SkbSetMacHeader
    \/ \E h \in SkbArgs : SkbReset(h)

SpecTag == InitTag /\ [][NextTag]_vars

\* One TCP socket created with SOCK_NONBLOCK, driven by one task and by
\* arbitrary segments from the network.
Init ==
    /\ sk = NewSocket(TRUE)
    /\ task = [t \in Tasks |-> IdleTask]
    /\ out = NoOut
    /\ cpu = IdleCpu
    /\ budget = MaxConnects
    /\ SkbIdle
    /\ RouteIdle
    /\ PidIdle
    /\ UserIdle
    /\ Ext4Idle

\* Sequence numbers tcp_connect starts from, lengths handed to read and write.
IssChoices == {0, SeqMod - 2}
IoLens == 1 .. MaxPayload

\* Initial sequence numbers the peer answers a SYN with.
PeerIsns == {SeqMod - 2}

\* Acknowledgement numbers around the send window of socket s.
AcksAt(s) ==
    {WrappingSub(s.snd_una, 1), s.snd_una, WrappingAdd(s.snd_una, 1),
     s.snd_nxt, WrappingAdd(s.snd_nxt, 1)}

\* The segments the network may deliver to socket s: every flag combination,
\* in sequence (or, answering a SYN, from the peer's initial sequence number),
\* no payload; with the ACK flag, ack around SND.UNA and SND.NXT and a closed
\* or a fully open window; without it, the ack field is zero.
SegmentsAt(s) ==
    {seg \in [flags : SUBSET Flags,
              seq : IF s.state = "SynSent" THEN PeerIsns ELSE {s.rcv_nxt},
              ack : AcksAt(s) \cup {0},
              wnd : {0, MaxWnd},
              payload : {<<>>}] :
        "ACK" \notin seg.flags => seg.ack = 0 /\ seg.wnd = MaxWnd}

Next ==
    \/ \E seg \in SegmentsAt(sk) : TcpRcv(seg)
    \/ \E iss \in IssChoices : SysConnect("t1", iss, FALSE)
    \/ SysListen("t1")
    \/ \E how \in 0 .. 2 : SysShutdown("t1", how, FALSE)
    \/ ShutdownEof("t1")
    \/ ShutdownWake("t1")
    \/ \E n \in IoLens : SysSendto("t1", n)

Spec == Init /\ [][Next]_vars

\* The socket as sys_socket creates it, without and with SOCK_NONBLOCK, and
\* the blocking socket whose file was given O_NONBLOCK afterwards.
NewSockets ==
    {NewSocket(FALSE), NewSocket(TRUE), [NewSocket(FALSE) EXCEPT !.o_nonblock = TRUE]}

\* The segments of a peer that keeps its window closed: the answers to a SYN;
\* then a reset, a bare acknowledgement, in-order data, and a FIN.
SockSegments(s) ==
    IF s.state = "SynSent"
    THEN {[flags |-> {"SYN", "ACK"}, seq |-> p, ack |-> s.snd_nxt, wnd |-> 0,
           payload |-> <<>>] : p \in PeerIsns}
         \cup {[flags |-> {"RST", "ACK"}, seq |-> 0, ack |-> s.snd_nxt, wnd |-> 0,
                payload |-> <<>>]}
    ELSE {[flags |-> {"RST"}, seq |-> s.rcv_nxt, ack |-> 0, wnd |-> 0,
           payload |-> <<>>]}
         \cup {[flags |-> {"ACK"}, seq |-> s.rcv_nxt, ack |-> s.snd_nxt, wnd |-> 0,
                payload |-> p] : p \in {<<>>, <<1, 2>>}}
         \cup {[flags |-> {"ACK", "FIN"}, seq |-> s.rcv_nxt, ack |-> s.snd_nxt,
                wnd |-> 0, payload |-> <<>>]}

\* One socket, blocking or not, used by one task for connecting, reading,
\* writing, shutting down and querying SO_ERROR; a second connect call meets
\* what the first started.
InitSock ==
    /\ sk \in NewSockets
    /\ task = [t \in Tasks |-> IdleTask]
    /\ out = NoOut
    /\ cpu = IdleCpu
    /\ budget = MaxConnects + 1
    /\ SkbIdle
    /\ RouteIdle
    /\ PidIdle
    /\ UserIdle
    /\ Ext4Idle

NextSock ==
    \/ \E seg \in SockSegments(sk) : TcpRcv(seg)
    \/ \E n \in IoLens : ReadCall("t1", n)
    \/ ReadWait("t1")
    \/ ReadRecheck("t1")
    \/ \E n \in IoLens : WriteCall("t1", n)
    \/ WriteWait("t1")
    \/ WriteRetry("t1")
    \/ \E fails \in BOOLEAN : SysConnect("t1", SeqMod - 2, fails)
    \/ ConnCheck("t1")
    \/ ConnWait("t1")
    \/ \E how \in 0 .. 3, fails \in BOOLEAN : SysShutdown("t1", how, fails)
    \/ ShutdownEof("t1")
    \/ ShutdownWake("t1")
    \/ \E so_error \in BOOLEAN, has_buf \in BOOLEAN :
           SysGetsockopt("t1", so_error, has_buf)

SpecSock == InitSock /\ [][NextSock]_vars

\* Initial sequence numbers of a peer, the last of the sequence space among
\* them.
HandshakeIsns == {0, SeqMod - 1}

\* The answers the network may deliver while socket s connects: every flag
\* combination; with the ACK flag, the expected and two other acknowledgement
\* numbers and a closed or a fully open window.
HandshakeSegments(s) ==
    {seg \in [flags : SUBSET Flags,
              seq : HandshakeIsns,
              ack : {s.snd_nxt, WrappingAdd(s.snd_nxt, 1), 0},
              wnd : {0, MaxWnd},
              payload : {<<>>}] :
        "ACK" \notin seg.flags => seg.ack = 0 /\ seg.wnd = MaxWnd}

\* One task connecting a blocking or a non-blocking socket while the answer to
\* its SYN arrives.
InitHandshake ==
    /\ sk \in {NewSocket(FALSE), NewSocket(TRUE)}
    /\ task = [t \in Tasks |-> IdleTask]
    /\ out = NoOut
    /\ cpu = IdleCpu
    /\ budget = MaxConnects + 1
    /\ SkbIdle
    /\ RouteIdle
    /\ PidIdle
    /\ UserIdle
    /\ Ext4Idle

NextHandshake ==
    \/ \E seg \in HandshakeSegments(sk) : TcpRcv(seg)
    \/ \E iss \in IssChoices : SysConnect("t1", iss, FALSE)
    \/ ConnCheck("t1")
    \/ ConnWait("t1")

SpecHandshake == InitHandshake /\ [][NextHandshake]_vars

\* The scheduler runs the connecting task whenever it is inside the kernel and
\* able to run; the network owes the socket no further segment.
FairConnect ==
    /\ WF_vars(ConnCheck("t1"))
    /\ WF_vars(ConnWait("t1"))

SpecConnectFair == InitHandshake /\ [][NextHandshake]_vars /\ FairConnect

\* The answers of a peer that accepts, refuses or resets the connection of
\* socket s.
ErrorSegments(s) ==
    [flags : {{"SYN", "ACK"}, {"RST", "ACK"}},
     seq : IF s.state = "SynSent" THEN PeerIsns ELSE {s.rcv_nxt},
     ack : {s.snd_nxt},
     wnd : {MaxWnd},
     payload : {<<>>}]

\* A non-blocking socket that connects, twice at most, while two tasks read
\* and write it and the peer refuses or resets the connection.
InitError ==
    /\ sk = NewSocket(TRUE)
    /\ task = [t \in Tasks |-> IdleTask]
    /\ out = NoOut
    /\ cpu = IdleCpu
    /\ budget = MaxConnects + 1
    /\ SkbIdle
    /\ RouteIdle
    /\ PidIdle
    /\ UserIdle
    /\ Ext4Idle

NextError ==
    \/ \E seg \in ErrorSegments(sk) : TcpRcv(seg)
    \/ \E iss \in IssChoices : SysConnect("t2", iss, FALSE)
    \/ \E t \in Tasks, n \in IoLens : ReadLoad(t, n)
    \/ \E n \in IoLens : WriteLoad("t2", n)
    \/ \E t \in Tasks : ErrorClear(t)

SpecError == InitError /\ [][NextError]_vars

\* The segments a peer may send to socket s, acknowledging everything sent or
\* nothing.
InputSegments(s) ==
    {seg \in SegmentsAt(s) : seg.wnd = MaxWnd /\ seg.ack \in {0, s.snd_nxt}}

\* What can be wrong with a packet.
Defects ==
    {"none", "short", "no_saddr", "no_daddr", "offset_low", "offset_high",
     "checksum", "unknown"}

\* The packet of segment seg with a header of hlen bytes and one defect.
Defective(seg, hlen, defect) ==
    Packet(IF defect = "short" THEN TCP_HLEN_MIN - 1 ELSE hlen + Len(seg.payload),
           defect # "no_saddr",
           defect # "no_daddr",
           CASE defect = "offset_low" -> TCP_HLEN_MIN - 4
             [] defect = "offset_high" -> hlen + Len(seg.payload) + 4
             [] OTHER -> hlen,
           IF defect = "checksum" THEN 1 ELSE 0,
           defect # "unknown",
           seg)

\* The packets the IP layer may hand to tcp_rcv for socket s: headers without
\* and with one word of options.
InputPackets(s) ==
    {Defective(seg, hlen, defect) :
        seg \in InputSegments(s), hlen \in {TCP_HLEN_MIN, TCP_HLEN_MIN + 4},
        defect \in Defects}

\* A blocking or a non-blocking socket that connects, listens and shuts down
\* while packets, sound and broken, arrive for it.
InitInput ==
    /\ sk \in {NewSocket(FALSE), NewSocket(TRUE)}
    /\ task = [t \in Tasks |-> IdleTask]
    /\ out = NoOut
    /\ cpu = IdleCpu
    /\ budget = MaxConnects
    /\ SkbIdle
    /\ RouteIdle
    /\ PidIdle
    /\ UserIdle
    /\ Ext4Idle

NextInput ==
    \/ \E pkt \in InputPackets(sk) : TcpRcvSkb(pkt)
    \/ \E iss \in IssChoices : SysConnect("t1", iss, FALSE)
    \/ ConnCheck("t1")
    \/ ConnWait("t1")
    \/ SysListen("t2")
    \/ SysShutdown("t2", 1, FALSE)

SpecInput == InitInput /\ [][NextInput]_vars

\* What the network may deliver to a polled socket: the segments of
\* SegmentsAt and one byte of in-order data.
PollSegments(s) ==
    SegmentsAt(s)
    \cup {[flags |-> {"ACK"}, seq |-> s.rcv_nxt, ack |-> s.snd_nxt, wnd |-> MaxWnd,
           payload |-> <<1>>]}

\* A task that polls its socket, with or without a poll table, between the
\* calls and the segments that open, close and reset the connection.
NextPoll ==
    \/ \E seg \in PollSegments(sk) : TcpRcv(seg)
    \/ \E iss \in IssChoices : SysConnect("t1", iss, FALSE)
    \/ \E how \in 0 .. 2 : SysShutdown("t1", how, FALSE)
    \/ ShutdownEof("t1")
    \/ ShutdownWake("t1")
    \/ \E pt \in BOOLEAN, tx_space \in BOOLEAN : SockPoll("t1", pt, tx_space)

SpecPoll == Init /\ [][NextPoll]_vars

\* The segments of a peer that acknowledges and moves its window: the answer
\* to a SYN with a closed or an open window; then a reset and acknowledgements
\* of nothing new or of everything sent.
SendSegments(s) ==
    IF s.state = "SynSent"
    THEN {[flags |-> {"SYN", "ACK"}, seq |-> p, ack |-> s.snd_nxt, wnd |-> w,
           payload |-> <<>>] : p \in PeerIsns, w \in {0, MaxWnd}}
    ELSE {[flags |-> {"RST"}, seq |-> s.rcv_nxt, ack |-> 0, wnd |-> 0,
           payload |-> <<>>]}
         \cup {[flags |-> {"ACK"}, seq |-> s.rcv_nxt, ack |-> a, wnd |-> w,
                payload |-> <<>>] : a \in {s.snd_una, s.snd_nxt}, w \in {0, MaxWnd}}

\* One socket, blocking or not, connected and written to through both entry
\* points, write and sendto.
InitSend ==
    /\ sk \in NewSockets
    /\ task = [t \in Tasks |-> IdleTask]
    /\ out = NoOut
    /\ cpu = IdleCpu
    /\ budget = MaxConnects
    /\ SkbIdle
    /\ RouteIdle
    /\ PidIdle
    /\ UserIdle
    /\ Ext4Idle

NextSend ==
    \/ \E seg \in SendSegments(sk) : TcpRcv(seg)
    \/ \E iss \in IssChoices : SysConnect("t1", iss, FALSE)
    \/ ConnCheck("t1")
    \/ ConnWait("t1")
    \/ \E n \in IoLens : WriteCall("t1", n)
    \/ WriteWait("t1")
    \/ WriteRetry("t1")
    \/ \E n \in IoLens : SysSendto("t1", n)

SpecSend == InitSend /\ [][NextSend]_vars

\* A SYN and the peer's answer to it.
SynAck(s, w) ==
    [flags |-> {"SYN", "ACK"}, seq |-> SeqMod - 2, ack |-> s.snd_nxt, wnd |-> w,
     payload |-> <<>>]

\* A blocking socket whose handshake from iss completed, the peer's window w.
Connected(iss, w) ==
    LET s == TcpConnect(NewSocket(FALSE), iss)
    IN  ProcessSynSent(s, SynAck(s, w)).sk

\* A reader and a caller of shutdown on a connected blocking socket on which
\* no data arrives; the second task also sends.
InitShut ==
    /\ sk \in {Connected(iss, w) : iss \in IssChoices, w \in {0, MaxWnd}}
    /\ task = [t \in Tasks |-> IdleTask]
    /\ out = NoOut
    /\ cpu = IdleCpu
    /\ budget = 0
    /\ SkbIdle
    /\ RouteIdle
    /\ PidIdle
    /\ UserIdle
    /\ Ext4Idle

\* Acknowledgements only: the receive queue stays empty.
ShutSegments(s) ==
    {[flags |-> {"ACK"}, seq |-> s.rcv_nxt, ack |-> a, wnd |-> w,
      payload |-> <<>>] : a \in {s.snd_una, s.snd_nxt}, w \in {0, MaxWnd}}

NextShut ==
    \/ \E seg \in ShutSegments(sk) : TcpRcv(seg)
    \/ \E n \in IoLens : ReadCall("t1", n)
    \/ ReadWait("t1")
    \/ ReadRecheck("t1")
    \/ SysShutdown("t2", 0, FALSE)
    \/ ShutdownWake("t2")
    \/ \E n \in IoLens : SysSendto("t2", n)

\* The scheduler runs every task that is inside the kernel and able to run.
FairShut ==
    /\ WF_vars(ReadWait("t1"))
    /\ WF_vars(ReadRecheck("t1"))
    /\ WF_vars(ShutdownWake("t2"))

SpecShut == InitShut /\ [][NextShut]_vars /\ FairShut

(***************************************************************************)
(*        tcp_rcv STEP BY STEP ON TWO CPUS  (net/tcp_input.rs)             *)
(***************************************************************************)

Cpus == {"c1", "c2"}

\* The connection both segments belong to: Established, one byte in flight
\* across the wrap of the sequence space.
RaceSocket == TcpSendmsg(Connected(SeqMod - 2, MaxWnd), 1).sk

\* The segments the two CPUs may hold: in-order data of either length, data
\* ahead of RCV.NXT, an acknowledgement of the byte in flight, a FIN, in-order
\* data with a FIN, and a reset.
RaceSegments ==
    LET s == RaceSocket
        Seg(f, seq, ack, w, p) ==
            [flags |-> f, seq |-> seq, ack |-> ack, wnd |-> w, payload |-> p]
    IN  {Seg({"ACK"}, s.rcv_nxt, s.snd_una, MaxWnd, <<1>>),
         Seg({"ACK"}, s.rcv_nxt, s.snd_una, MaxWnd, <<1, 2>>),
         Seg({"ACK"}, WrappingAdd(s.rcv_nxt, 1), s.snd_una, MaxWnd, <<2>>),
         Seg({"ACK"}, s.rcv_nxt, s.snd_nxt, 0, <<>>),
         Seg({"ACK", "FIN"}, s.rcv_nxt, s.snd_una, MaxWnd, <<>>),
         Seg({"ACK", "FIN"}, s.rcv_nxt, s.snd_una, MaxWnd, <<1>>),
         Seg({"RST"}, s.rcv_nxt, 0, 0, <<>>)}

\* A CPU entering tcp_rcv with segment seg; una, nxt and rcv are the locals
\* snd_una, snd_nxt and rcv_nxt of process_established.
CpuWith(seg) == [pc |-> "dispatch", seg |-> seg, una |-> 0, nxt |-> 0, rcv |-> 0]

\* Where process_established goes on after its ACK part and its data part.
AfterAck(seg) ==
    IF seg.payload # <<>> THEN "data_load"
    ELSE IF "FIN" \in seg.flags THEN "fin_load" ELSE "done"

AfterData(seg) == IF "FIN" \in seg.flags THEN "fin_load" ELSE "done"

\* Every race action leaves the tasks and the packet buffer alone.
RaceFrame == UNCHANGED <<task, out, budget>> /\ UNCHANGED notNetVars

\* tcp_rcv: read the state and dispatch.  In Established the CPU enters
\* process_established and tests RST; the handler of any other state runs in
\* one step.
RcvDispatch(c) ==
    /\ cpu[c].pc = "dispatch"
    /\ LET seg == cpu[c].seg IN
       IF sk.state = "Established"
       THEN /\ cpu' = [cpu EXCEPT ![c].pc =
                  IF "RST" \in seg.flags THEN "rst_state"
                  ELSE IF "ACK" \in seg.flags THEN "ack_load_una"
                  ELSE AfterAck(seg)]
            /\ UNCHANGED sk
       ELSE /\ sk' = TcpRcvDispatch(sk, seg).sk
            /\ cpu' = [cpu EXCEPT ![c].pc = "done"]
    /\ RaceFrame

\* process_established, RST: tcp.set_state(Closed)
RcvRstState(c) ==
    /\ cpu[c].pc = "rst_state"
    /\ sk' = [sk EXCEPT !.state = "Closed"]
    /\ cpu' = [cpu EXCEPT ![c].pc = "rst_error"]
    /\ RaceFrame

\* process_established, RST: socket.set_error(-ECONNRESET), wake_all, return
RcvRstError(c) ==
    /\ cpu[c].pc = "rst_error"
    /\ sk' = [sk EXCEPT !.error = -ECONNRESET]
    /\ cpu' = [cpu EXCEPT ![c].pc = "done"]
    /\ RaceFrame

\* process_established, ACK: snd_una = tcp.snd_una.load()
RcvAckLoadUna(c) ==
    /\ cpu[c].pc = "ack_load_una"
    /\ cpu' = [cpu EXCEPT ![c].una = sk.snd_una, ![c].pc = "ack_load_nxt"]
    /\ UNCHANGED sk
    /\ RaceFrame

\* process_established, ACK: snd_nxt = tcp.snd_nxt() and the test of ack
RcvAckLoadNxt(c) ==
    /\ cpu[c].pc = "ack_load_nxt"
    /\ LET seg == cpu[c].seg IN
       cpu' = [cpu EXCEPT ![c].nxt = sk.snd_nxt,
                          ![c].pc = IF AckAcceptable(seg.ack, cpu[c].una, sk.snd_nxt)
                                    THEN "ack_store_una" ELSE AfterAck(seg)]
    /\ UNCHANGED sk
    /\ RaceFrame

\* process_established, ACK: tcp.snd_una.store(ack)
RcvAckStoreUna(c) ==
    /\ cpu[c].pc = "ack_store_una"
    /\ sk' = [sk EXCEPT !.snd_una = cpu[c].seg.ack]
    /\ cpu' = [cpu EXCEPT ![c].pc = "ack_rtx"]
    /\ RaceFrame

\* process_established, ACK: under the retransmit queue's lock, retain the
\* unacknowledged entries, store the window, wake the writers.
RcvAckRtx(c) ==
    /\ cpu[c].pc = "ack_rtx"
    /\ LET seg == cpu[c].seg IN
       /\ sk' = [sk EXCEPT !.rtx = SelectSeq(sk.rtx, LAMBDA e : RtxKeep(e, seg.ack)),
                           !.snd_wnd = seg.wnd]
       /\ cpu' = [cpu EXCEPT ![c].pc = AfterAck(seg)]
    /\ RaceFrame

\* process_established, data: rcv_nxt = tcp.rcv_nxt() and the test of seq
RcvDataLoad(c) ==
    /\ cpu[c].pc = "data_load"
    /\ LET seg == cpu[c].seg IN
       cpu' = [cpu EXCEPT ![c].rcv = sk.rcv_nxt,
                          ![c].pc = IF seg.seq = sk.rcv_nxt THEN "data_deliver"
                                    ELSE IF WrappingSub(seg.seq, sk.rcv_nxt) < SeqHalf
                                    THEN "ooo_insert"
                                    ELSE AfterData(seg)]
    /\ UNCHANGED sk
    /\ RaceFrame

\* process_established, in-order data: socket.deliver_data(payload)
RcvDeliver(c) ==
    /\ cpu[c].pc = "data_deliver"
    /\ sk' = DeliverData(sk, cpu[c].seg.payload)
    /\ cpu' = [cpu EXCEPT ![c].pc = "data_store_nxt"]
    /\ RaceFrame

\* process_established, in-order data: tcp.set_rcv_nxt(rcv_nxt + len), the
\* ACK and the wake-up of the readers.
RcvDataStoreNxt(c) ==
    /\ cpu[c].pc = "data_store_nxt"
    /\ LET seg == cpu[c].seg IN
       /\ sk' = [sk EXCEPT !.rcv_nxt = WrappingAdd(cpu[c].rcv, Len(seg.payload))]
       /\ cpu' = [cpu EXCEPT ![c].pc = AfterData(seg)]
    /\ RaceFrame

\* process_established, data ahead of RCV.NXT: insert under the queue's lock
RcvOooInsert(c) ==
    /\ cpu[c].pc = "ooo_insert"
    /\ LET seg == cpu[c].seg IN
       /\ sk' = [sk EXCEPT !.ooo = OooInsert(sk.ooo, seg.seq, seg.payload)]
       /\ cpu' = [cpu EXCEPT ![c].pc = AfterData(seg)]
    /\ RaceFrame

\* process_established, FIN: rcv_nxt = tcp.rcv_nxt()
RcvFinLoad(c) ==
    /\ cpu[c].pc = "fin_load"
    /\ cpu' = [cpu EXCEPT ![c].rcv = sk.rcv_nxt, ![c].pc = "fin_store_nxt"]
    /\ UNCHANGED sk
    /\ RaceFrame

\* process_established, FIN: tcp.set_rcv_nxt(rcv_nxt + 1)
RcvFinStoreNxt(c) ==
    /\ cpu[c].pc = "fin_store_nxt"
    /\ sk' = [sk EXCEPT !.rcv_nxt = WrappingAdd(cpu[c].rcv, 1)]
    /\ cpu' = [cpu EXCEPT ![c].pc = "fin_state"]
    /\ RaceFrame

\* process_established, FIN: tcp.set_state(CloseWait) and the ACK
RcvFinState(c) ==
    /\ cpu[c].pc = "fin_state"
    /\ sk' = [sk EXCEPT !.state = "CloseWait"]
    /\ cpu' = [cpu EXCEPT ![c].pc = "fin_eof"]
    /\ RaceFrame

\* process_established, FIN: socket.set_eof() and the wake-up of the readers
RcvFinEof(c) ==
    /\ cpu[c].pc = "fin_eof"
    /\ sk' = [sk EXCEPT !.eof = TRUE]
    /\ cpu' = [cpu EXCEPT ![c].pc = "done"]
    /\ RaceFrame

\* Two CPUs enter tcp_rcv, each with a segment of the same connection.
InitRace ==
    /\ sk = RaceSocket
    /\ cpu \in [Cpus -> {CpuWith(seg) : seg \in RaceSegments}]
    /\ task = [t \in Tasks |-> IdleTask]
    /\ out = NoOut
    /\ budget = 0
    /\ SkbIdle
    /\ RouteIdle
    /\ PidIdle
    /\ UserIdle
    /\ Ext4Idle

NextRace ==
    \/ \E c \in Cpus : RcvDispatch(c)
    \/ \E c \in Cpus : RcvRstState(c)
    \/ \E c \in Cpus : RcvRstError(c)
    \/ \E c \in Cpus : RcvAckLoadUna(c)
    \/ \E c \in Cpus : RcvAckLoadNxt(c)
    \/ \E c \in Cpus : RcvAckStoreUna(c)
    \/ \E c \in Cpus : RcvAckRtx(c)
    \/ \E c \in Cpus : RcvDataLoad(c)
    \/ \E c \in Cpus : RcvDeliver(c)
    \/ \E c \in Cpus : RcvDataStoreNxt(c)
    \/ \E c \in Cpus : RcvOooInsert(c)
    \/ \E c \in Cpus : RcvFinLoad(c)
    \/ \E c \in Cpus : RcvFinStoreNxt(c)
    \/ \E c \in Cpus : RcvFinState(c)
    \/ \E c \in Cpus : RcvFinEof(c)

SpecRace == InitRace /\ [][NextRace]_vars

\* The bytes of the peer's stream: the byte at sequence number q is q itself,
\* so that a payload of n bytes at seq is determined by its place.
StreamPayload(seq, n) == [i \in 1 .. n |-> WrappingAdd(seq, i - 1)]

\* Sequence numbers around RCV.NXT: the last old one, RCV.NXT, the next, and
\* the two on either side of the half of the sequence space.
SeqsAround(s) ==
    {WrappingSub(s.rcv_nxt, 1), s.rcv_nxt, WrappingAdd(s.rcv_nxt, 1),
     WrappingAdd(s.rcv_nxt, SeqHalf - 1), WrappingAdd(s.rcv_nxt, SeqHalf)}

\* What the peer of a connection may send: any of ACK, FIN and RST, at a
\* sequence number around RCV.NXT, with no, one or two bytes of its stream,
\* acknowledging nothing new or everything.
DataSegments(s) ==
    {seg \in [flags : SUBSET {"ACK", "FIN", "RST"},
              seq : SeqsAround(s),
              ack : {s.snd_una, s.snd_nxt, 0},
              wnd : {MaxWnd},
              payload : {<<>>}] :
        "ACK" \notin seg.flags => seg.ack = 0}

WithPayload(segs) ==
    {[seg EXCEPT !.payload = StreamPayload(seg.seq, n)] :
        seg \in segs, n \in 0 .. MaxPayload}

\* A connected blocking socket with one byte in flight and nobody reading,
\* its peer sending data in and out of order.
InitData ==
    /\ sk = RaceSocket
    /\ task = [t \in Tasks |-> IdleTask]
    /\ out = NoOut
    /\ cpu = IdleCpu
    /\ budget = 0
    /\ SkbIdle
    /\ RouteIdle
    /\ PidIdle
    /\ UserIdle
    /\ Ext4Idle

NextData == \E seg \in WithPayload(DataSegments(sk)) : TcpRcv(seg)

SpecData == InitData /\ [][NextData]_vars

\* What a peer sends that closes its side: data and a FIN, at RCV.NXT or one
\* byte ahead of it, acknowledging nothing new.
FinSegments(s) ==
    [flags : {{"ACK"}, {"ACK", "FIN"}},
     seq : {s.rcv_nxt, WrappingAdd(s.rcv_nxt, 1)},
     ack : {s.snd_una},
     wnd : {MaxWnd},
     payload : {<<>>}]

\* The same connection with a task reading while the peer sends and closes.
NextFin ==
    \/ \E seg \in WithPayload(FinSegments(sk)) : TcpRcv(seg)
    \/ \E n \in IoLens : ReadCall("t1", n)
    \/ ReadWait("t1")
    \/ ReadRecheck("t1")

SpecFin == InitData /\ [][NextFin]_vars

\* The routing table under every sequence of its mutators and lookups.
InitRoute ==
    /\ RouteIdle
    /\ SkbIdle
    /\ NetIdle
    /\ PidIdle
    /\ UserIdle
    /\ Ext4Idle

NextRoute ==
    \/ /\ Len(routes) < MaxRoutes
       /\ \E dest \in IpAddrs, netmask \in IpAddrs, dev \in Devs :
              AddInterfaceRoute(dest, netmask, dev)
    \/ /\ Len(routes) < MaxRoutes
       /\ \E gateway \in Gateways, dev \in Devs : AddDefaultRoute(gateway, dev)
    \/ /\ Len(routes) < MaxRoutes
       /\ \E dest \in IpAddrs, gateway \in Gateways, dev \in Devs :
              AddHostRoute(dest, gateway, dev)
    \/ ClearRoutes
    \/ \E dest \in IpAddrs : RouteLookup(dest)

SpecRoute == InitRoute /\ [][NextRoute]_vars

\* Networks whose netmask is a prefix and whose destination has its top bit
\* set, as in 10.0.0.0/8 and 10.1.0.0/16.
PrefixMasks == {2 ^ IpBits - 2 ^ (IpBits - 1), 2 ^ IpBits - 1}
NetDests == {a \in IpAddrs : a >= 2 ^ (IpBits - 1)}

\* A host with interfaces A and B on such networks and its uplink C: one
\* route more than MaxRoutes fits the table.
NextUplink ==
    \/ /\ Len(routes) <= MaxRoutes
       /\ \E dest \in NetDests, netmask \in PrefixMasks, dev \in Devs \ {"C"} :
              AddInterfaceRoute(dest, netmask, dev)
    \/ /\ Len(routes) <= MaxRoutes
       /\ \E gateway \in Gateways : AddDefaultRoute(gateway, "C")
    \/ /\ Len(routes) <= MaxRoutes
       /\ \E dest \in NetDests, gateway \in Gateways : AddHostRoute(dest, gateway, "C")
    \/ ClearRoutes
    \/ \E dest \in IpAddrs : RouteLookup(dest)

SpecUplink == InitRoute /\ [][NextUplink]_vars

\* PID namespaces: cloned from the root, PIDs allocated on two CPUs, tasks
\* registered and unregistered through the hierarchy and directly.
InitPid ==
    /\ PidIdle
    /\ SkbIdle
    /\ NetIdle
    /\ RouteIdle
    /\ UserIdle
    /\ Ext4Idle

NextPid ==
    \/ \E p \in PidNsIds : PidCloneNs(p)
    \/ \E c \in PidCpus, ns \in PidNsIds : AllocPidLock(c, ns)
    \/ \E c \in PidCpus : AllocPidCheck(c)
    \/ \E c \in PidCpus : AllocPidIncr(c)
    \/ \E tid \in Tids, ns \in PidNsIds : RegisterTaskPids(tid, ns)
    \/ \E tid \in Tids, ns \in PidNsIds : UnregisterTaskPids(tid, ns)

SpecPid == InitPid /\ [][NextPid]_vars

\* One child of the root namespace, whose maps are also written by direct
\* calls of register and unregister with the PIDs 1 and 2.
NextReaper ==
    \/ ~pidns[2].live /\ PidCloneNs(1)
    \/ \E tid \in Tids, ns \in PidNsIds : RegisterTaskPids(tid, ns)
    \/ \E pid \in 1 .. 2, tid \in Tids : PidRegister(2, pid, tid)
    \/ \E tid \in Tids : PidUnregister(2, tid)

SpecReaper == InitPid /\ [][NextReaper]_vars

\* The same namespaces with every writer of the two maps: registration and
\* unregistration through the hierarchy and by direct calls.
NextMaps ==
    \/ NextReaper
    \/ \E tid \in Tids, ns \in PidNsIds : UnregisterTaskPids(tid, ns)

SpecMaps == InitPid /\ [][NextMaps]_vars

\* The extents handed to set_mapping: two that overlap each other and one at
\* the top of the ID space.
ExtentChoices ==
    {[first |-> 0, lower_first |-> 1, count |-> 2],
     [first |-> 1, lower_first |-> 0, count |-> 2],
     [first |-> IdMax, lower_first |-> IdMax, count |-> IdMax]}

\* Extent lists written to a UID map: none, one or two different extents.
MaxExtents == 2
UidExtentLists ==
    {l \in UNION {[1 .. n -> ExtentChoices] : n \in 0 .. MaxExtents} :
        \A i, j \in 1 .. Len(l) : i # j => l[i] # l[j]}

\* Extent lists written to a GID map.
GidExtentLists == {<<[first |-> 0, lower_first |-> 1, count |-> 2]>>}

\* User namespaces: cloned from the root, their maps written and queried.
InitUser ==
    /\ UserIdle
    /\ Ext4Idle
    /\ SkbIdle
    /\ NetIdle
    /\ RouteIdle
    /\ PidIdle

NextUser ==
    \/ \E p \in UserNsIds : UserCloneNs(p)
    \/ \E ns \in UserNsIds, e \in UidExtentLists : SetUidMapping(ns, e)
    \/ \E ns \in UserNsIds, e \in GidExtentLists : SetGidMapping(ns, e)
    \/ \E ns \in UserNsIds, id \in Ids : ToKuid(ns, id)
    \/ \E ns \in UserNsIds, id \in Ids : FromKuid(ns, id)
    \/ \E ns \in UserNsIds, id \in Ids : ToKgid(ns, id)
    \/ \E ns \in UserNsIds, id \in Ids : FromKgid(ns, id)

SpecUser == InitUser /\ [][NextUser]_vars

\* Incompatible-feature words of a superblock: none, every named bit alone, two
\* bits without a name, the usual set, and sets with rejected bits.
FeatureChoices ==
    {0, 32, 131072,
     EXT4_FEATURE_INCOMPAT_COMPRESSION, EXT4_FEATURE_INCOMPAT_FILETYPE,
     EXT4_FEATURE_INCOMPAT_RECOVER, EXT4_FEATURE_INCOMPAT_JOURNAL_DEV,
     EXT4_FEATURE_INCOMPAT_EXTENTS, EXT4_FEATURE_INCOMPAT_64BIT,
     EXT4_FEATURE_INCOMPAT_FLEX_BG, EXT4_FEATURE_INCOMPAT_INLINE_DATA,
     EXT4_FEATURE_INCOMPAT_ENCRYPT,
     GoodSb(0).s_feature_incompat,
     GoodSb(0).s_feature_incompat + EXT4_FEATURE_INCOMPAT_RECOVER,
     GoodSb(0).s_feature_incompat + EXT4_FEATURE_INCOMPAT_ENCRYPT,
     EXT4_FEATURE_INCOMPAT_COMPRESSION + EXT4_FEATURE_INCOMPAT_JOURNAL_DEV
         + EXT4_FEATURE_INCOMPAT_INLINE_DATA + EXT4_FEATURE_INCOMPAT_ENCRYPT}

\* Devices handed to mount: the magic right, zero, or byte-swapped; any of the
\* feature words; blocks of 1 KiB, 4 KiB or a shift of 32; with and without
\* blocks, blocks per group and inodes per group.
MountImages ==
    {Image([GoodSb(log) EXCEPT !.s_magic = magic, !.s_feature_incompat = f,
                               !.s_blocks_per_group = bpg,
                               !.s_inodes_per_group = ipg,
                               !.s_blocks_count = count],
           EXT4_EXTENTS_FL, Leaf(<<>>), EmptyMap) :
        magic \in {EXT4_SUPER_MAGIC, 0, 21487}, f \in FeatureChoices,
        log \in {0, 2, 32}, bpg \in {0, 8}, ipg \in {0, 16}, count \in {0, 8}}

InitMount ==
    /\ img \in MountImages
    /\ fs = NoFs
    /\ fsret = NoFsRet
    /\ walk = NoWalk
    /\ SkbIdle
    /\ NetIdle
    /\ RouteIdle
    /\ PidIdle
    /\ UserIdle

NextMount ==
    \/ \E io_fails \in BOOLEAN, overflow_checks \in BOOLEAN :
           Ext4Mount(io_fails, overflow_checks)
    \/ \E io_fails \in BOOLEAN : Ext4Readpage(EXT4_ROOT_INO, 0, io_fails)
    \/ \E page_offset \in 0 .. 1 : Ext4Writepage(page_offset)
    \/ Ext4AllocInode

SpecMount == InitMount /\ [][NextMount]_vars

\* Extents a file may have: blocks 0-3, block 4, blocks 5-6 unwritten, an
\* extent of length 0x8000 at block 7, and blocks 2-3 of another layout.
ExtentPool ==
    {[ee_block |-> 0, ee_len |-> 4, ee_start |-> 100],
     [ee_block |-> 4, ee_len |-> 1, ee_start |-> 200],
     [ee_block |-> 5, ee_len |-> 32770, ee_start |-> 300],
     [ee_block |-> 7, ee_len |-> 32768, ee_start |-> 400],
     [ee_block |-> 2, ee_len |-> 2, ee_start |-> 500]}

\* Extents of one file at most, logical blocks asked for.
MaxTreeExtents == 3
MaxLogical == 8

\* The extent lists of a file: in the order of their blocks, none overlapping
\* the next.
ExtentLists ==
    UNION {{l \in [1 .. n -> ExtentPool] :
               \A i \in 1 .. n - 1 :
                   l[i].ee_block + (l[i].ee_len % 32768) <= l[i + 1].ee_block} :
           n \in 0 .. MaxTreeExtents}

\* The leaves of a tree over list l: the whole list in one leaf, or cut in
\* two after entry k.
LeafCuts(l) ==
    {<<l>>} \cup {<<SubSeq(l, 1, k), SubSeq(l, k + 1, Len(l))>> : k \in 1 .. Len(l) - 1}

\* The index entries over the leaves cut, stored from block first on; each
\* index starts at first_block(leaf) + shift.
IndexOver(cut, first, shift) ==
    [i \in 1 .. Len(cut) |->
        [ei_block |-> (IF cut[i] = <<>> THEN 0 ELSE cut[i][1].ee_block) + shift,
         ei_leaf |-> first + i - 1]]

LeafBlocks(cut, first, magic) ==
    [b \in first .. first + Len(cut) - 1 |->
        [Leaf(cut[b - first + 1]) EXCEPT !.eh_magic = magic]]

\* The images of a file with EXTENTS_FL and a tree of depth 0, 1 or 2.
TreeImages ==
    {Image(GoodSb(2), EXT4_EXTENTS_FL, Leaf(l), EmptyMap) : l \in ExtentLists}
    \cup {Image(GoodSb(2), EXT4_EXTENTS_FL, Internal(1, IndexOver(cut, 20, 0)),
                LeafBlocks(cut, 20, EXT4_EXT_MAGIC)) :
             cut \in UNION {LeafCuts(l) : l \in ExtentLists}}
    \cup {Image(GoodSb(2), EXT4_EXTENTS_FL,
                Internal(2, <<[ei_block |-> 0, ei_leaf |-> 30]>>),
                LeafBlocks(cut, 20, EXT4_EXT_MAGIC)
                @@ (30 :> Internal(1, IndexOver(cut, 20, 0)))) :
             cut \in UNION {LeafCuts(l) : l \in ExtentLists}}

\* Images that are not what the format asks for: a file without EXTENTS_FL, a
\* root with a wrong magic, a leaf with a wrong magic, indices that start
\* after the first block of their leaf, and an index to a missing block.
BrokenImages ==
    {Image(GoodSb(2), 16, Leaf(l), EmptyMap) : l \in ExtentLists}
    \cup {Image(GoodSb(2), EXT4_EXTENTS_FL, [Leaf(l) EXCEPT !.eh_magic = 2803],
                EmptyMap) : l \in ExtentLists}
    \cup {Image(GoodSb(2), EXT4_EXTENTS_FL, Internal(1, IndexOver(cut, 20, 0)),
                LeafBlocks(cut, 20, 0)) :
             cut \in UNION {LeafCuts(l) : l \in ExtentLists}}
    \cup {Image(GoodSb(2), EXT4_EXTENTS_FL, Internal(1, IndexOver(cut, 20, 1)),
                LeafBlocks(cut, 20, EXT4_EXT_MAGIC)) :
             cut \in UNION {LeafCuts(l) : l \in ExtentLists}}
    \cup {Image(GoodSb(2), EXT4_EXTENTS_FL, Internal(1, IndexOver(cut, 40, 0)),
                LeafBlocks(cut, 20, EXT4_EXT_MAGIC)) :
             cut \in UNION {LeafCuts(l) : l \in ExtentLists}}

\* A mounted file system whose file is read page by page and mapped block by
\* block.
InitExtent ==
    /\ img \in TreeImages \cup BrokenImages
    /\ fs = MountDev(img, FALSE, FALSE).fs
    /\ fsret = NoFsRet
    /\ walk = NoWalk
    /\ SkbIdle
    /\ NetIdle
    /\ RouteIdle
    /\ PidIdle
    /\ UserIdle

NextExtent ==
    \/ \E logical_block \in 0 .. MaxLogical : Ext4MapBlock(FileIno, logical_block)
    \/ \E page_offset \in 0 .. MaxLogical, io_fails \in BOOLEAN :
           Ext4Readpage(FileIno, page_offset, io_fails)
    \/ \E page_offset \in 0 .. 1 : Ext4Writepage(page_offset)
    \/ Ext4AllocInode

SpecExtent == InitExtent /\ [][NextExtent]_vars

\* An index that sends every block from start on to block b.
IndexTo(start, b) == <<[ei_block |-> start, ei_leaf |-> b]>>

\* One extent: the first four blocks of the file, at block 100.
FourBlocks == Leaf(<<[ee_block |-> 0, ee_len |-> 4, ee_start |-> 100]>>)

\* Extent trees as an image may hold them: a sound tree of depth 2; a child
\* that declares the depth of its parent; a child that declares more; an index
\* block that points to itself; two index blocks that point to each other.
WalkImages ==
    {Image(GoodSb(2), EXT4_EXTENTS_FL, Internal(2, IndexTo(0, 21)),
           (21 :> Internal(1, IndexTo(0, 22))) @@ (22 :> FourBlocks)),
     Image(GoodSb(2), EXT4_EXTENTS_FL, Internal(1, IndexTo(0, 21)),
           (21 :> Internal(1, IndexTo(0, 22))) @@ (22 :> FourBlocks)),
     Image(GoodSb(2), EXT4_EXTENTS_FL, Internal(1, IndexTo(2, 21)),
           (21 :> Internal(2, IndexTo(0, 22))) @@ (22 :> Internal(1, IndexTo(0, 23)))
           @@ (23 :> FourBlocks)),
     Image(GoodSb(2), EXT4_EXTENTS_FL, Internal(1, IndexTo(0, 21)),
           (21 :> Internal(1, IndexTo(1, 21)))),
     Image(GoodSb(2), EXT4_EXTENTS_FL, Internal(2, IndexTo(0, 21)),
           (21 :> Internal(1, IndexTo(0, 22))) @@ (22 :> Internal(1, IndexTo(0, 21))))}

\* The descents a search is followed for.
MaxDescents == 4

\* A file system mounted from an image whose extent tree may be malformed,
\* and searches of the file's tree for each of its first blocks.
InitWalk ==
    /\ img \in WalkImages
    /\ fs = NoFs
    /\ fsret = NoFsRet
    /\ walk = NoWalk
    /\ SkbIdle
    /\ NetIdle
    /\ RouteIdle
    /\ PidIdle
    /\ UserIdle

NextWalk ==
    \/ Ext4Mount(FALSE, FALSE)
    \/ \E logical_block \in 0 .. MaxLogical : ExtentSearchCall(FileIno, logical_block)
    \/ walk.descents < MaxDescents /\ \E io_fails \in BOOLEAN : ExtentSearchStep(io_fails)

SpecWalk == InitWalk /\ [][NextWalk]_vars

(***************************************************************************)
(*                     PROPERTIES: TCP STATE MACHINE                       *)
(***************************************************************************)

\* State changes the input table gives a received segment.
InputTransitions ==
    {<<"SynSent", "Closed">>, <<"SynSent", "Established">>,
     <<"Established", "Closed">>, <<"Established", "CloseWait">>,
     <<"FinWait1", "Closed">>, <<"FinWait1", "FinWait2">>,
     <<"FinWait1", "Closing">>, <<"FinWait1", "TimeWait">>,
     <<"FinWait2", "TimeWait">>,
     <<"CloseWait", "Closed">>,
     <<"LastAck", "Closed">>}

\* State changes of the socket calls: listen opens a closed socket, connect
\* starts a handshake from a closed or listening one, close sends a FIN from a
\* synchronized state and drops an unsynchronized connection.
CallTransitions ==
    {<<"Closed", "Listen">>,
     <<"Closed", "SynSent">>, <<"Listen", "SynSent">>,
     <<"Established", "FinWait1">>, <<"CloseWait", "LastAck">>,
     <<"SynReceived", "FinWait1">>,
     <<"Listen", "Closed">>, <<"SynSent", "Closed">>}

\* One step obeys the table: a change of state is one the table allows, and a
\* segment that closes a connection short of LastAck carries RST.
TableStep ==
    /\ sk'.state # sk.state =>
           <<sk.state, sk'.state>> \in InputTransitions \cup CallTransitions
    /\ \A seg \in SegmentsAt(sk) :
           (/\ TcpRcv(seg)
            /\ sk'.state = "Closed"
            /\ sk.state \notin {"Closed", "LastAck"})
               => "RST" \in seg.flags

\* C1: every change of the TCP state, by a received segment or by listen,
\* connect or shutdown, is a transition the per-state table allows, and a
\* segment moves a connection straight to Closed only when it carries RST.
C1_TableFollowed == [][TableStep]_vars

(***************************************************************************)
(*                     PROPERTIES: PACKET BUFFER                           *)
(***************************************************************************)

CursorsOrdered(b) == b.head <= b.data /\ b.data <= b.tail /\ b.tail <= b.end

\* C2: head <= data <= tail <= end holds of the packet buffer before and after
\* every call of alloc, reserve, push, pull, put, put_slice, trim, set_len and
\* reset, whatever the arguments, and only an allocation sets head and end.
C2_CursorBounds ==
    /\ []CursorsOrdered(skb)
    /\ [][\/ \E h \in SkbArgs, n \in SkbAllocLens : SkbAlloc(h, n)
          \/ (skb'.head = skb.head /\ skb'.end = skb.end)]_vars

(***************************************************************************)
(*                PROPERTIES: ACKNOWLEDGEMENT PROCESSING                   *)
(***************************************************************************)

\* ack lies in the send window: SND.UNA <= ack <= SND.NXT, by signed difference.
AckInWindow(s, seg) ==
    "ACK" \in seg.flags /\ SeqLE(s.snd_una, seg.ack) /\ SeqLE(seg.ack, s.snd_nxt)

SndUnaLeSndNxt(s) == SeqLE(s.snd_una, s.snd_nxt)

\* The step changes SND.UNA, SND.WND or the retransmit queue.
SndChanged ==
    \/ sk'.snd_una # sk.snd_una
    \/ sk'.snd_wnd # sk.snd_wnd
    \/ sk'.rtx # sk.rtx

\* What a step must satisfy if it is tcp_rcv on a TCB with SND.UNA <= SND.NXT:
\* the order is kept, and whichever segment changed the send side had its ack
\* in the window.
AckStep ==
    SndUnaLeSndNxt(sk) =>
        /\ ~SndUnaLeSndNxt(sk') => \A seg \in SegmentsAt(sk) : ~TcpRcv(seg)
        /\ SndChanged =>
               \A seg \in SegmentsAt(sk) : TcpRcv(seg) => AckInWindow(sk, seg)

\* C3: tcp_rcv keeps SND.UNA <= SND.NXT (signed difference modulo the sequence
\* space) on every segment in every state, and a segment whose ack is not
\* within SND.UNA .. SND.NXT leaves SND.UNA, SND.WND and the retransmit queue
\* as they were.
C3_SndUnaLeSndNxt == [][AckStep]_vars

\* C3 witness: an acknowledgement of all data in flight was accepted and
\* advanced SND.UNA across the wrap of the sequence space.
C3_AckAdvancedUna ==
    /\ sk.state = "Established"
    /\ "tx" \in out.woke
    /\ sk.snd_una = 0
    /\ sk.snd_nxt = 0

\* The entries of the retransmit queue rtx that ack leaves unacknowledged:
\* those whose right edge seq + len is after ack in sequence arithmetic.
Unacked(rtx, ack) ==
    SelectSeq(rtx, LAMBDA e : SeqLT(ack, WrappingAdd(e.seq, e.len)))

\* What an accepted ACK on an Established connection must leave of the queue.
RtxStep(seg) ==
    (/\ sk.state = "Established"
     /\ "RST" \notin seg.flags
     /\ SndUnaLeSndNxt(sk)
     /\ AckInWindow(sk, seg))
        => sk'.rtx = Unacked(sk.rtx, seg.ack)

\* C4: after an accepted ACK in Established the retransmit queue holds exactly
\* the entries it held whose right edge seq + len is after ack in modular
\* sequence arithmetic, also when seq, seq + len or ack wrap.
C4_RtxExactlyUnacked ==
    [][\A seg \in SegmentsAt(sk) : TcpRcv(seg) => RtxStep(seg)]_vars

(***************************************************************************)
(*                  PROPERTIES: CONCURRENT tcp_rcv                         *)
(***************************************************************************)

\* The TCB after tcp_rcv on segment a and then on segment b, one at a time.
InOrder(a, b) == TcpRcvDispatch(TcpRcvDispatch(RaceSocket, a).sk, b).sk

\* What the claim compares: state, SND.UNA, RCV.NXT and the RX queue.
Observed(s) == <<s.state, s.snd_una, s.rcv_nxt, s.rx>>

RaceDone == \A c \in Cpus : cpu[c].pc = "done"

\* C5: when two CPUs have run tcp_rcv concurrently on two segments of one
\* connection, the state, SND.UNA, RCV.NXT and the RX queue are those of
\* processing the two segments one after the other, in one of the two orders.
C5_RcvSerialized ==
    RaceDone =>
        Observed(sk) \in {Observed(InOrder(cpu["c1"].seg, cpu["c2"].seg)),
                          Observed(InOrder(cpu["c2"].seg, cpu["c1"].seg))}

(***************************************************************************)
(*                    PROPERTIES: SOCKET CALLS                             *)
(***************************************************************************)

\* The errors the TCP input path leaves pending on a socket.
PendingErrors == {ECONNRESET, ECONNREFUSED}

\* The result of a file operation names errno e: it is the error e converts
\* to, and no other pending error converts to it.
NamesErrno(ret, e) ==
    /\ ret.kind = "Err"
    /\ ret.val = FsErrorFromErrno(e)
    /\ \A other \in PendingErrors \ {e} : FsErrorFromErrno(other) # ret.val

\* Task t returns the pending error from a read or a write, which clears it
\* and leaves the RX queue alone.
ReturnsPending(t) ==
    /\ task'[t].pc = "done"
    /\ NamesErrno(task'[t].ret, -sk.error)
    /\ sk'.error = 0
    /\ sk'.rx = sk.rx

\* What a step must satisfy while an error is pending.
ErrorStep ==
    sk.error # 0 =>
        /\ \A t \in Tasks :
               /\ \A n \in IoLens :
                      (ReadCall(t, n) \/ WriteCall(t, n)) => ReturnsPending(t)
               /\ ReadRecheck(t) => ReturnsPending(t)
               /\ \A b \in BOOLEAN :
                      SysGetsockopt(t, TRUE, b) =>
                          /\ task'[t].optval = -sk.error
                          /\ sk'.error = 0
        /\ sk'.error # sk.error =>
               \/ \E t \in Tasks :
                      \/ \E n \in IoLens : ReadCall(t, n) \/ WriteCall(t, n)
                      \/ ReadRecheck(t)
                      \/ ConnCheck(t)
                      \/ \E b \in BOOLEAN : SysGetsockopt(t, TRUE, b)
               \/ \E seg \in SockSegments(sk) : TcpRcv(seg)

\* C6: a pending socket error stays until consumed and is consumed once: the
\* next read, write or SO_ERROR query returns it (a read also when data is
\* queued, which it leaves queued) and leaves the pending error 0; nothing
\* but the TCP input path sets another.
C6_ErrorReturnedOnce == [][ErrorStep]_vars

\* The states in which a read finds the connection closed.
ClosedStates == {"Closed", "TimeWait"}

FileNonblocking(s) == s.o_nonblock \/ s.nonblocking

\* The outcome of one pass of read by task t with a buffer of buf_len bytes
\* and no error pending; zero_states are the TCP states in which an empty
\* queue reads as end of file.
ReadOutcome(t, buf_len, zero_states) ==
    LET n == Min(buf_len, Len(sk.rx))
        r == task'[t]
    IN  IF sk.rx # <<>>
        THEN /\ r.pc = "done"
             /\ r.ret = FileOk(n)
             /\ r.buf = SubSeq(sk.rx, 1, n)
             /\ sk'.rx = SubSeq(sk.rx, n + 1, Len(sk.rx))
        ELSE /\ sk'.rx = sk.rx
             /\ IF sk.eof \/ sk.state \in zero_states
                THEN r.pc = "done" /\ r.ret = FileOk(0)
                ELSE IF FileNonblocking(sk)
                THEN r.pc = "done" /\ r.ret = FileErr(FsWouldBlock)
                ELSE r.pc = "read_wait"

\* What the steps of read must satisfy.
ReadStep(zero_states) ==
    \A t \in Tasks :
        /\ sk.error = 0 =>
               /\ \A n \in IoLens : ReadCall(t, n) => ReadOutcome(t, n, zero_states)
               /\ ReadRecheck(t) => ReadOutcome(t, task[t].arg, zero_states)
        /\ ReadWait(t) => task'[t].pc = "read_sleep"
        /\ (task[t].pc = "read_sleep" /\ task'[t].pc # "read_sleep") =>
               /\ "rx" \in out'.woke
               /\ task'[t].pc = "read_check"

\* C7 as stated: with no error pending a read returns the first
\* min(buf_len, queue_len) bytes of a non-empty RX queue and removes them,
\* 0 on an empty queue with EOF set, EWOULDBLOCK on an empty queue without EOF
\* when the socket or the file is nonblocking, whatever the TCP state, and
\* otherwise sleeps on the RX wait queue and checks again when woken.
C7_ReadAnyState == [][ReadStep({})]_vars

\* C7 as amended: the same, except that an empty queue also reads as 0 when
\* the TCP state is Closed or TimeWait, and EWOULDBLOCK and the sleep are for
\* the other states.
C7_ReadResult == [][ReadStep(ClosedStates)]_vars

\* C7 witness: a read of a nonblocking socket that was never connected
\* returned 0.
C7_ClosedReadReturnsZero ==
    /\ task["t1"].pc = "done"
    /\ task["t1"].op = "read"
    /\ task["t1"].ret = FileOk(0)
    /\ sk.state = "Closed"
    /\ ~sk.eof
    /\ sk.nonblocking

\* The outcome of connect up to its first return or sleep; may_fail says that
\* starting the handshake can fail.
ConnectOutcome(t, fails, may_fail) ==
    LET r == task'[t] IN
    IF sk.state = "Established"
    THEN r.pc = "done" /\ r.ret = Sys(EISCONN) /\ sk' = sk
    ELSE IF sk.state \in {"SynSent", "SynReceived"} /\ sk.nonblocking
    THEN r.pc = "done" /\ r.ret = Sys(EALREADY) /\ sk' = sk
    ELSE IF may_fail /\ fails
    THEN r.pc = "done" /\ r.ret.val < 0 /\ r.ret.val # EINPROGRESS
    ELSE /\ sk'.state = "SynSent"
         /\ IF sk.nonblocking
            THEN r.pc = "done" /\ r.ret = Sys(EINPROGRESS)
            ELSE r.pc # "done"

\* What the steps of connect must satisfy.
ConnectStep(may_fail) ==
    \A t \in Tasks :
        /\ \A fails \in BOOLEAN :
               SysConnect(t, SeqMod - 2, fails) => ConnectOutcome(t, fails, may_fail)
        /\ ConnCheck(t) =>
               IF sk.state = "Established"
               THEN task'[t].pc = "done" /\ task'[t].ret = Sys(0)
               ELSE IF sk.state = "Closed"
               THEN /\ task'[t].pc = "done"
                    /\ task'[t].ret = Sys(IF sk.error # 0 THEN sk.error ELSE ENOTCONN)
               ELSE task'[t].pc # "done"
        /\ ConnWait(t) => task'[t].pc # "done"

\* C9 as stated: connect returns EISCONN in Established without starting a
\* handshake, EALREADY in SynSent or SynReceived on a nonblocking socket, and
\* otherwise starts the handshake and returns EINPROGRESS if nonblocking; a
\* blocking connect returns only in Established, with 0, or in Closed, with
\* the pending error or ENOTCONN.
C9_ConnectAlwaysStarts == [][ConnectStep(FALSE)]_vars

\* C9 as amended: the same for a call whose arguments are valid, except that
\* when the handshake cannot be started connect returns that failure's
\* negative errno instead.
C9_ConnectResult == [][ConnectStep(TRUE)]_vars

\* C9 witness: a blocking connect returned 0.
C9_BlockingConnectReturned ==
    /\ task["t1"].pc = "done"
    /\ task["t1"].op = "connect"
    /\ task["t1"].ret = Sys(0)
    /\ ~sk.nonblocking

\* tcp_sendmsg of n bytes on socket s reports would-block.
WouldBlock(s, n) ==
    LET r == TcpSendmsg(s, n) IN ~r.ok /\ r.err = "WouldBlock"

\* Task t returns would-block at once if the socket is nonblocking and is put
\* to sleep on the TX wait queue if not; err is the entry point's would-block.
BlocksOrFails(t, err) ==
    IF FileNonblocking(sk)
    THEN task'[t].pc = "done" /\ task'[t].ret = err
    ELSE task'[t].pc = "write_wait"

\* What the steps of write and sendto must satisfy.
SendStep ==
    \A t \in Tasks :
        /\ \A n \in IoLens :
               (WouldBlock(sk, n) /\ sk.error = 0) =>
                   /\ WriteCall(t, n) => BlocksOrFails(t, FileErr(FsWouldBlock))
                   /\ SysSendto(t, n) =>
                          BlocksOrFails(t, Sys(-ToErrno("WouldBlock")))
        /\ WriteWait(t) => task'[t].pc = "write_sleep"
        /\ WriteRetry(t) =>
               /\ task'[t].pc = "done"
               /\ sk' = TcpSendmsg(sk, task[t].arg).sk

\* C10: a write or a sendto for which tcp_sendmsg reports would-block puts the
\* caller of a blocking socket to sleep on the TX wait queue and retries
\* tcp_sendmsg once when woken; only a nonblocking socket gets would-block
\* back at once.  Both entry points behave so.
C10_WouldBlockSuspends == [][SendStep]_vars

\* The reader is inside read, past its entry.
ReaderInRead ==
    /\ task["t1"].op = "read"
    /\ task["t1"].pc \in {"read_wait", "read_sleep", "read_check"}

\* C8: once shutdown(fd, 0) has set EOF while a reader of a blocking socket is
\* inside read with an empty RX queue, the reader eventually returns 0,
\* wherever in read the shutdown found it.
C8_ShutdownCancelsRead ==
    (ReaderInRead /\ sk.rx = <<>> /\ sk.eof)
        ~> (task["t1"].pc = "done" /\ task["t1"].ret = FileOk(0))


(***************************************************************************)
(*                        PROPERTIES: ROUTING                              *)
(***************************************************************************)

\* The routes of the table whose masked destination equals the masked dest.
MatchingRoutes(dest) ==
    {i \in 1 .. Len(routes) :
        BitAnd(dest, routes[i].netmask, IpBits) =
            BitAnd(routes[i].dest, routes[i].netmask, IpBits)}

\* C11: route_lookup fails with no-route exactly when no route of the table
\* matches the destination under its netmask; otherwise it selects a matching
\* route whose netmask has the most one bits, and among those the one that
\* was inserted first.
C11_LongestPrefixFirstInserted ==
    rt.kind # "none" =>
        LET M == MatchingRoutes(rt.dest) IN
        /\ (rt.kind = "NoRoute") <=> (M = {})
        /\ rt.kind = "Ok" =>
              /\ rt.route \in M
              /\ \A j \in M :
                    /\ CountOnes(routes[j].netmask, IpBits) <=
                           CountOnes(routes[rt.route].netmask, IpBits)
                    /\ CountOnes(routes[j].netmask, IpBits) =
                           CountOnes(routes[rt.route].netmask, IpBits)
                       => rt.route <= j

\* A lookup that selected the earlier of two matching routes whose different
\* netmasks have equally many one bits.
C11_Witness ==
    /\ rt.kind = "Ok"
    /\ \E j \in MatchingRoutes(rt.dest) :
          /\ j > rt.route
          /\ routes[j].netmask # routes[rt.route].netmask
          /\ CountOnes(routes[j].netmask, IpBits) =
                 CountOnes(routes[rt.route].netmask, IpBits)

\* The table of the scenario, with 10.0.0.0/8 as 10/10, 10.1.0.0/16 as 11/11
\* and the gateway 10.0.0.1 as 10 in two-bit addresses.
UplinkTable ==
    /\ Len(routes) = 3
    /\ routes[1].dest = 2 /\ routes[1].netmask = 2 /\ routes[1].gateway = 0
    /\ routes[1].dev = "A"
    /\ routes[2].dest = 3 /\ routes[2].netmask = 3 /\ routes[2].gateway = 0
    /\ routes[2].dev = "B" /\ routes[2].flags = RTF_UP
    /\ routes[3].dest = 0 /\ routes[3].netmask = 0 /\ routes[3].gateway = 2
    /\ routes[3].dev = "C"

\* C12: a successful lookup returns the device of the selected route and, as
\* next hop, the route's gateway when that is non-zero and the destination
\* itself otherwise; with 10.0.0.0/8 via A, 10.1.0.0/16 via B and a default
\* route via C with a gateway, 10.1.2.3 gives (B, 10.1.2.3), 10.2.2.3 gives
\* (A, 10.2.2.3) and 8.8.8.8 gives (C, gateway).
C12_NextHopAndDevice ==
    rt.kind = "Ok" =>
        /\ rt.dev = routes[rt.route].dev
        /\ rt.next_hop = IF routes[rt.route].gateway # 0
                         THEN routes[rt.route].gateway ELSE rt.dest
        /\ UplinkTable =>
              /\ rt.dest = 3 => rt.dev = "B" /\ rt.next_hop = 3
              /\ rt.dest = 2 => rt.dev = "A" /\ rt.next_hop = 2
              /\ rt.dest < 2 => rt.dev = "C" /\ rt.next_hop = 2

\* The scenario's table after the lookup that left through the default route.
C12_Witness ==
    /\ UplinkTable
    /\ rt.kind = "Ok" /\ rt.dest = 0 /\ rt.dev = "C" /\ rt.next_hop = 2

(***************************************************************************)
(*                     PROPERTIES: PID NAMESPACES                          *)
(***************************************************************************)

\* C13: in every PID namespace the PIDs that successful alloc_pid calls
\* returned, in the order they returned, are strictly increasing, so no value
\* is returned twice, whatever was unregistered in between and however the
\* callers interleave.
C13_PidsStrictlyIncreasing ==
    \A ns \in PidNsIds :
        \A i, j \in DOMAIN pid_log[ns] : i < j => pid_log[ns][i] < pid_log[ns][j]

\* A namespace handed out PID 2 to a registered task while PID 1, handed out
\* before, is in no map, and another CPU is inside alloc_pid.
C13_Witness ==
    \E ns \in PidNsIds :
        /\ pid_log[ns] = <<1, 2>>
        /\ 2 \in DOMAIN pidns[ns].pid_map
        /\ 1 \notin DOMAIN pidns[ns].pid_map
        /\ \E c \in PidCpus : pidcpu[c].pc # "idle"

\* C14: alloc_pid hands out 1, 2, 3, ... in order up to and including pid_max;
\* an allocation fails, with EAGAIN, only after pid_max itself was handed out,
\* and the failed call leaves the next-PID counter where it was.
C14_AllocatesThroughPidMax ==
    /\ \A ns \in PidNsIds : \A i \in DOMAIN pid_log[ns] : pid_log[ns][i] = i
    /\ (pidret.op = "alloc_pid" /\ ~pidret.ok) =>
          /\ pidret.val = PidEagain
          /\ \E i \in DOMAIN pid_log[pidret.ns] : pid_log[pidret.ns][i] = PidMax
          /\ pidns[pidret.ns].next_pid = Len(pid_log[pidret.ns]) + 1

\* The namespaces register_task_pids is to make a task visible in: ns and the
\* parents above it.
RECURSIVE SelfAndAncestors(_)
SelfAndAncestors(ns) ==
    IF ns = 0 THEN {} ELSE {ns} \cup SelfAndAncestors(pidns[ns].parent)

\* C15: when register_task_pids(tid, ns) returns Ok for a task registered
\* nowhere before, then in ns and in each ancestor of ns task_pid_nr_ns(tid) is
\* a non-zero PID that this call allocated there and find_task_by_pid_ns of it
\* gives tid, and in every other namespace task_pid_nr_ns(tid) is 0.
C15_VisibleInEveryAncestor ==
    [][(/\ pidret'.op = "register_task_pids"
        /\ pidret'.ok
        /\ \A a \in PidNsIds : pidret'.tid \notin DOMAIN pidns[a].tid_map)
       => \A a \in PidNsIds :
             LET tid == pidret'.tid
                 nr == TaskPidNrNs(tid, pidns'[a])
             IN  IF a \in SelfAndAncestors(pidret'.ns)
                 THEN /\ nr # 0
                      /\ FindTaskByPidNs(nr, pidns'[a]) = tid
                      /\ pid_log'[a] = Append(pid_log[a], nr)
                 ELSE nr = 0]_vars

\* C16: the child reaper of a namespace is unset until the first register
\* with pid 1, which sets it to the registered task; no other step changes it
\* and no later register replaces it; in an untouched child of the root
\* namespace the first registered task gets PID 1 and becomes the reaper and
\* the second gets PID 2.
C16_ReaperSetOnceByPidOne ==
    [][\A ns \in PidNsIds :
          LET n == pidns[ns]
              m == pidns'[ns]
          IN  /\ ~n.live => m.child_reaper = 0
              /\ n.child_reaper # 0 => m.child_reaper = n.child_reaper
              /\ m.child_reaper # n.child_reaper =>
                    /\ 1 \in DOMAIN m.pid_map
                    /\ m.pid_map[1] = m.child_reaper
              /\ (/\ n.live /\ n.child_reaper = 0
                  /\ 1 \in DOMAIN m.pid_map) => m.child_reaper = m.pid_map[1]
              /\ (/\ n.live /\ n.parent = 1
                  /\ pidret'.op = "register_task_pids" /\ pidret'.ok
                  /\ pidret'.ns = ns) =>
                    /\ (pid_log[ns] = <<>> /\ n.child_reaper = 0) =>
                          /\ pidret'.val = 1
                          /\ m.tid_map[pidret'.tid] = 1
                          /\ m.child_reaper = pidret'.tid
                    /\ pid_log[ns] = <<1>> =>
                          /\ pidret'.val = 2
                          /\ m.tid_map[pidret'.tid] = 2
                          /\ m.child_reaper = n.child_reaper]_vars

\* PID 1 of a namespace now belongs to another task than the reaper, and the
\* second task registered through register_task_pids holds PID 2.
C16_Witness ==
    \E ns \in PidNsIds :
        /\ pidns[ns].child_reaper # 0
        /\ 1 \in DOMAIN pidns[ns].pid_map
        /\ pidns[ns].pid_map[1] # pidns[ns].child_reaper
        /\ pidret.op = "register_task_pids" /\ pidret.ok /\ pidret.ns = ns
        /\ pidret.val = 2

(***************************************************************************)
(*                    PROPERTIES: USER NAMESPACES                          *)
(***************************************************************************)

\* C17: a UID or GID map is set at most once: a set_mapping call on a map on
\* which an earlier set_mapping returned Ok, whatever list that one
\* installed, fails with EPERM and leaves the extents as they were.
C17_MapSetAtMostOnce ==
    [][\A ns \in UserNsIds :
          /\ (/\ idret'.op = "set_uid_map" /\ idret'.ns = ns
              /\ userns[ns].uid_was_set)
             => /\ ~idret'.ok
                /\ idret'.val = UserEperm
                /\ userns'[ns].uid_map = userns[ns].uid_map
          /\ (/\ idret'.op = "set_gid_map" /\ idret'.ns = ns
              /\ userns[ns].gid_was_set)
             => /\ ~idret'.ok
                /\ idret'.val = UserEperm
                /\ userns'[ns].gid_map = userns[ns].gid_map]_vars

\* The ranges [a, a + n) and [b, b + m) share no ID.
RangesDisjoint(a, n, b, m) == a + n <= b \/ b + m <= a

\* The extents of a map are pairwise disjoint on the namespace side and on
\* the parent side.
ExtentsDisjoint(extents) ==
    \A i, j \in 1 .. Len(extents) :
        i < j =>
            /\ RangesDisjoint(extents[i].first, extents[i].count,
                              extents[j].first, extents[j].count)
            /\ RangesDisjoint(extents[i].lower_first, extents[i].count,
                              extents[j].lower_first, extents[j].count)

\* C18: in a map that a set_mapping call has set, the extents are pairwise
\* disjoint, in their ranges [first, first + count) and in their ranges
\* [lower_first, lower_first + count).
C18_ExtentsDisjointAfterSet ==
    \A ns \in UserNsIds :
        /\ userns[ns].uid_was_set => ExtentsDisjoint(userns[ns].uid_map)
        /\ userns[ns].gid_was_set => ExtentsDisjoint(userns[ns].gid_map)

\* C19: in the init user namespace to_kuid, from_kuid, to_kgid and from_kgid
\* return Some(id) for every id of the ID space, the largest included.
C19_InitMapsAreIdentity ==
    (/\ idret.ns = 1
     /\ idret.op \in {"to_kuid", "from_kuid", "to_kgid", "from_kgid"})
    => idret.val = idret.id

\* map_id_down through the UID map of ns and of each namespace above it that
\* has a parent; None as soon as one step is unmapped.
RECURSIVE ChainDown(_, _)
ChainDown(ns, id) ==
    IF id = NoId \/ userns[ns].parent = 0 THEN id
    ELSE ChainDown(userns[ns].parent, MapIdDown(userns[ns].uid_map, id))

\* map_id_up in the opposite direction: from below the root down to ns.
RECURSIVE ChainUp(_, _)
ChainUp(ns, kuid) ==
    IF userns[ns].parent = 0 THEN kuid
    ELSE LET id == ChainUp(userns[ns].parent, kuid) IN
         IF id = NoId THEN NoId ELSE MapIdUp(userns[ns].uid_map, id)

\* C20: in a namespace of level 1 or more to_kuid returns the composition of
\* map_id_down through the namespace and its ancestors up to the root, and
\* from_kuid the composition of map_id_up in the opposite direction.
C20_KuidChainsThroughAncestors ==
    (idret.op \in {"to_kuid", "from_kuid"} /\ userns[idret.ns].level >= 1)
    => idret.val = IF idret.op = "to_kuid" THEN ChainDown(idret.ns, idret.id)
                   ELSE ChainUp(idret.ns, idret.id)

(***************************************************************************)
(*                   PROPERTIES: PACKET BUFFER TAGS                        *)
(***************************************************************************)

\* C25: reset(headroom), with headroom inside the allocation, on a buffer in
\* any state leaves data = tail = head + headroom and length 0, and every tag
\* (EtherType, IP protocol number, the three header offsets, the addresses,
\* checksum state, device reference, DMA address) as alloc sets it.
C25_ResetClearsAllTags ==
    [][\A h \in SkbArgs :
          (SkbReset(h) /\ skb.head + h <= skb.end)
          => /\ skb'.data = skb.head + h
             /\ skb'.tail = skb'.data
             /\ SkbLen(skb') = 0
             /\ skbtag' = FreshTags]_vars

(***************************************************************************)
(*                   PROPERTIES: GATEWAY REACHABILITY                      *)
(***************************************************************************)

\* Route j of the table reaches address gw for route i: it matches gw and is
\* either more specific than route i or directly connected.
ReachesGateway(table, i, j) ==
    /\ RouteMatches(table[j], table[i].gateway)
    /\ \/ PrefixLen(table[j]) > PrefixLen(table[i])
       \/ table[j].gateway = 0

\* C26: in every table the add functions and clear_routes can build, each
\* route with a non-zero gateway has a reachable gateway: some route of the
\* table matches the gateway address and is more specific than that route or
\* is directly connected.
C26_GatewayReachable ==
    \A i \in 1 .. Len(routes) :
        routes[i].gateway # 0
        => \E j \in 1 .. Len(routes) : ReachesGateway(routes, i, j)

(***************************************************************************)
(*                    PROPERTIES: ACTIVE OPEN                              *)
(***************************************************************************)

\* The task records after wake_all on the connect queue: every task asleep in
\* connect resumes at its check, nobody else moves.
ConnectWoken(tk) ==
    [t \in Tasks |-> IF tk[t].pc = "conn_sleep"
                     THEN [tk[t] EXCEPT !.pc = "conn_check"] ELSE tk[t]]

\* C28: in SynSent a segment with SYN and ACK (and no RST) whose ack is SND.NXT
\* sets IRS = seq, RCV.NXT = seq + 1 modulo the sequence space, SND.UNA = ack
\* and SND.WND = window, makes the connection Established, sends exactly one
\* ACK and wakes the connect waiter; a segment with ACK whose ack is not
\* SND.NXT changes no field of the socket, sends nothing and wakes nobody.
C28_SynAckEstablishes ==
    [][\A seg \in HandshakeSegments(sk) :
          (sk.state = "SynSent" /\ TcpRcv(seg))
          => /\ ({"SYN", "ACK"} \subseteq seg.flags /\ "RST" \notin seg.flags
                  /\ seg.ack = sk.snd_nxt)
                => /\ sk' = [sk EXCEPT !.irs = seg.seq,
                                       !.rcv_nxt = (seg.seq + 1) % SeqMod,
                                       !.snd_una = seg.ack,
                                       !.snd_wnd = seg.wnd,
                                       !.state = "Established"]
                   /\ out'.acks = 1
                   /\ out'.woke = {"connect"}
                   /\ task' = ConnectWoken(Settle(task))
             /\ ("ACK" \in seg.flags /\ seg.ack # sk.snd_nxt)
                => /\ sk' = sk
                   /\ out'.acks = 0
                   /\ out'.woke = {}
                   /\ task' = Settle(task)]_vars

\* A connect call sleeps on a blocking socket whose answer came from the end
\* of the sequence space, was taken, and woke it; and a socket in SynSent has
\* dropped an answer with a wrong acknowledgement number.
C28_Witness ==
    /\ sk.state = "Established"
    /\ sk.irs = SeqMod - 1
    /\ sk.rcv_nxt = 0
    /\ sk.snd_wnd = MaxWnd
    /\ out.acks = 1
    /\ task["t1"].pc = "conn_check"

\* C29: in SynSent every segment with RST that the acknowledgement check does
\* not drop (it has no ACK flag, or its ack is SND.NXT) closes the connection,
\* stores ECONNREFUSED as the pending error and wakes the connect waiter; the
\* blocked connect call that then runs its check returns that error.
C29_ResetRefusesConnect ==
    [][/\ \A seg \in HandshakeSegments(sk) :
             (/\ sk.state = "SynSent"
              /\ TcpRcv(seg)
              /\ "RST" \in seg.flags
              /\ "ACK" \notin seg.flags \/ seg.ack = sk.snd_nxt)
             => /\ sk'.state = "Closed"
                /\ sk'.error = -ECONNREFUSED
                /\ "connect" \in out'.woke
                /\ task' = ConnectWoken(Settle(task))
       /\ (ConnCheck("t1") /\ sk.state = "Closed" /\ sk.error = -ECONNREFUSED)
          => task'["t1"].pc = "done" /\ task'["t1"].ret = Sys(-ECONNREFUSED)]_vars

(***************************************************************************)
(*                  PROPERTIES: IN-ORDER DELIVERY                          *)
(***************************************************************************)

\* The peer's byte stream after the handshake of RaceSocket: the byte at
\* RCV.NXT is 1, the next 2, as the payloads of RaceSegments carry them.
StreamByte(i) == i

\* C30: in Established a segment without RST with a non-empty payload at
\* RCV.NXT appends exactly its payload to the end of the RX queue and advances
\* RCV.NXT by its length, so that the RX queue always holds the peer's byte
\* stream in order, without a gap and without a duplicate: byte i of the queue
\* (nothing having been read) is byte i of the stream.
C30_RxHoldsStreamInOrder ==
    \A i \in 1 .. Len(sk.rx) : sk.rx[i] = StreamByte(i)

(***************************************************************************)
(*                        PROPERTIES: POLL                                 *)
(***************************************************************************)

\* Mask m has every bit of bits set.
HasBits(m, bits) == BitAnd(m, bits, 16) = bits

\* Mask m has no bit of bits set.
HasNoBit(m, bits) == BitAnd(m, bits, 16) = 0

\* C27: the mask poll returns has ERR iff a pending error is stored, HUP iff
\* EOF is set or the TCP state is Closed or TimeWait, IN and RDNORM iff the RX
\* queue is not empty, OUT and WRNORM iff the TX queue has space, and no other
\* bit; poll leaves the socket as it was, the pending error included.
C27_PollMask ==
    [][\A pt \in BOOLEAN, tx_space \in BOOLEAN :
          (task'["t1"].op = "poll" /\ SockPoll("t1", pt, tx_space))
          => LET m == task'["t1"].ret.val IN
             /\ IF sk.error # 0 THEN HasBits(m, POLLERR) ELSE HasNoBit(m, POLLERR)
             /\ IF sk.eof \/ sk.state = "Closed" \/ sk.state = "TimeWait"
                THEN HasBits(m, POLLHUP) ELSE HasNoBit(m, POLLHUP)
             /\ IF Len(sk.rx) > 0
                THEN HasBits(m, POLLIN + POLLRDNORM)
                ELSE HasNoBit(m, POLLIN + POLLRDNORM)
             /\ IF tx_space
                THEN HasBits(m, POLLOUT + POLLWRNORM)
                ELSE HasNoBit(m, POLLOUT + POLLWRNORM)
             /\ m <= POLLIN + POLLOUT + POLLERR + POLLHUP + POLLRDNORM + POLLWRNORM
             /\ sk' = sk
             /\ sk'.error = sk.error]_vars

\* A poll has returned ERR, HUP, IN and RDNORM for a connection that received
\* data and was then reset, and the error is still pending.
C27_Witness ==
    /\ task["t1"].pc = "done"
    /\ task["t1"].op = "poll"
    /\ task["t1"].ret = PollRet(POLLERR + POLLHUP + POLLIN + POLLRDNORM)
    /\ sk.error = -ECONNRESET
    /\ sk.state = "Closed"
    /\ Len(sk.rx) = 1

(***************************************************************************)
(*                     PROPERTIES: EXT4 EXTENT MAP                         *)
(***************************************************************************)

\* Blocks an extent covers: ee_len without its top bit.
Covered(e) == {b \in 0 .. MaxLogical : e.ee_block <= b /\ b < e.ee_block + (e.ee_len % 32768)}

\* The node is the root of a well-formed subtree of the given depth for the
\* logical blocks from lo on (below hi, when bounded): right magic, the depth
\* its parent expects, extents in order and apart, indices in order, and every
\* child well-formed for the range of its index.
RECURSIVE WellFormed(_, _, _, _, _, _)
WellFormed(blocks, node, depth, lo, bounded, hi) ==
    /\ node.eh_magic = EXT4_EXT_MAGIC
    /\ node.eh_depth = depth
    /\ LET n == Len(node.entries) IN
       IF depth = 0
       THEN /\ \A i \in 1 .. n :
                  /\ node.entries[i].ee_block >= lo
                  /\ bounded => \A b \in Covered(node.entries[i]) : b < hi
            /\ \A i \in 1 .. n - 1 :
                  \A b \in Covered(node.entries[i]) : b < node.entries[i + 1].ee_block
       ELSE /\ \A i \in 1 .. n :
                  /\ node.entries[i].ei_block >= lo
                  /\ bounded => node.entries[i].ei_block < hi
                  /\ node.entries[i].ei_leaf \in DOMAIN blocks
            /\ \A i \in 1 .. n - 1 :
                  node.entries[i].ei_block < node.entries[i + 1].ei_block
            /\ \A i \in 1 .. n :
                  WellFormed(blocks, blocks[node.entries[i].ei_leaf], depth - 1,
                             node.entries[i].ei_block,
                             bounded \/ i < n,
                             IF i < n THEN node.entries[i + 1].ei_block ELSE hi)

\* All extents in the leaves under a node of a well-formed tree.
RECURSIVE LeafExtents(_, _)
LeafExtents(blocks, node) ==
    IF node.eh_depth = 0
    THEN {node.entries[i] : i \in 1 .. Len(node.entries)}
    ELSE UNION {LeafExtents(blocks, blocks[node.entries[i].ei_leaf]) :
                   i \in 1 .. Len(node.entries)}

\* The mapping of block b by a look at every extent of set S.
LinearScan(S, b) ==
    IF \E e \in S : b \in Covered(e)
    THEN LET e == CHOOSE e \in S : b \in Covered(e)
         IN  ExtOk(e.ee_start + (b - e.ee_block))
    ELSE ExtErr("NotFound")

\* The file of the image has EXTENTS_FL and a well-formed extent tree.
FileWellFormed ==
    LET inode == img.inodes[FileIno] IN
    /\ (inode.i_flags \div EXT4_EXTENTS_FL) % 2 = 1
    /\ inode.i_block.eh_magic = EXT4_EXT_MAGIC
    /\ WellFormed(img.blocks, inode.i_block, inode.i_block.eh_depth, 0, FALSE, 0)

C22_HoleIsIoError ==
    [][\A page_offset \in 0 .. MaxLogical, io_fails \in BOOLEAN :
          (/\ Ext4Readpage(FileIno, page_offset, io_fails)
           /\ fsret'.ino \in DOMAIN fs'.inode_cache
           /\ ExtentMapBlock(img.blocks, fs'.inode_cache[FileIno],
                             (page_offset * PAGE_SIZE) \div fs.block_size,
                             io_fails).err = "NotFound")
          => /\ ~fsret'.ok
             /\ fsret'.err = "IoError"
             /\ fsret'.buf = NoData]_vars

(***************************************************************************)
(*                    PROPERTIES: EXT4 IS READ-ONLY                        *)
(***************************************************************************)

\* C23: every mutating operation of the driver (writepage, alloc_inode) fails
\* with EROFS and changes nothing of the driver's state and of the device.
C23_MutatingOpsFailWithErofs ==
    [][(Ext4AllocInode \/ \E page_offset \in 0 .. 1 : Ext4Writepage(page_offset))
       => /\ ~fsret'.ok
          /\ fsret'.err = "errno"
          /\ fsret'.val = -EROFS
          /\ fs' = fs
          /\ img' = img]_vars

(***************************************************************************)
(*                       PROPERTIES: EXT4 MOUNT                            *)
(***************************************************************************)

\* Bit b (a power of two) is set in word f.
BitSet(f, b) == (f \div b) % 2 = 1

\* The superblock has one of the four incompatible features mount rejects.
HasRejectedFeature(sb) ==
    \/ BitSet(sb.s_feature_incompat, 1)
    \/ BitSet(sb.s_feature_incompat, 8)
    \/ BitSet(sb.s_feature_incompat, 32768)
    \/ BitSet(sb.s_feature_incompat, 65536)

\* The feature word f without every bit but the four rejected ones.
OnlyRejectedBits(f) ==
    (IF BitSet(f, 1) THEN 1 ELSE 0) + (IF BitSet(f, 8) THEN 8 ELSE 0)
    + (IF BitSet(f, 32768) THEN 32768 ELSE 0)
    + (IF BitSet(f, 65536) THEN 65536 ELSE 0)

\* C24: a mount of a device whose superblock magic is not 0xEF53 fails with an
\* I/O error, whatever its features; a mount that read the superblock fails
\* with not-supported iff the magic is right and one of COMPRESSION,
\* JOURNAL_DEV, INLINE_DATA and ENCRYPT is set; the other feature bits do not
\* change the result; and a mount that fails leaves no superblock.
C24_MountChecksMagicThenFeatures ==
    [][\A io_fails \in BOOLEAN, overflow_checks \in BOOLEAN :
          Ext4Mount(io_fails, overflow_checks)
          => /\ img.sb.s_magic # 61267 => ~fsret'.ok /\ fsret'.err = "IoError"
             /\ ~io_fails
                => (fsret'.err = "NotSupported"
                    <=> img.sb.s_magic = 61267 /\ HasRejectedFeature(img.sb))
             /\ fsret'.err =
                   MountDev([img EXCEPT !.sb.s_feature_incompat = OnlyRejectedBits(@)],
                            io_fails, overflow_checks).ret.err
             /\ ~fsret'.ok => fs' = NoFs /\ ~fs'.mounted]_vars

\* A mount of a file system with the usual features and encryption was
\* refused as not supported and left nothing mounted.
C24_Witness ==
    /\ fsret.op = "mount"
    /\ fsret.err = "NotSupported"
    /\ img.sb.s_magic = EXT4_SUPER_MAGIC
    /\ img.sb.s_feature_incompat =
           GoodSb(0).s_feature_incompat + EXT4_FEATURE_INCOMPAT_ENCRYPT
    /\ ~fs.mounted

(***************************************************************************)
(*                 CLAIMS ON DATA, FIN AND RST WHEN ESTABLISHED            *)
(***************************************************************************)

\* The distance from RCV.NXT forward to seq, modulo the sequence space.
AheadBy(seq, rcv_nxt) == (seq - rcv_nxt + SeqMod) % SeqMod

\* The segments a peer may send that carry data and neither RST nor FIN.
PlainData(s) ==
    {seg \in WithPayload({d \in DataSegments(s) : d.flags \subseteq {"ACK"}}) :
        seg.payload # <<>>}

\* C31: in Established, a segment without RST and without FIN whose non-empty
\* payload does not start at RCV.NXT leaves RCV.NXT, the receive queue and the
\* state alone.  Data less than half the sequence space ahead is stored in the
\* out-of-order map under its sequence number and answered by exactly one ACK;
\* anything else is old: no ACK, out-of-order map unchanged.
C31_OutOfOrderData ==
    [][\A seg \in PlainData(sk) :
          ( /\ sk.state = "Established"
            /\ seg.seq # sk.rcv_nxt
            /\ TcpRcv(seg) )
          => /\ sk'.rcv_nxt = sk.rcv_nxt
             /\ sk'.rx = sk.rx
             /\ sk'.state = sk.state
             /\ IF AheadBy(seg.seq, sk.rcv_nxt) < SeqMod \div 2
                THEN /\ DOMAIN sk'.ooo = (DOMAIN sk.ooo) \cup {seg.seq}
                     /\ sk'.ooo[seg.seq] = seg.payload
                     /\ \A k \in (DOMAIN sk.ooo) \ {seg.seq} : sk'.ooo[k] = sk.ooo[k]
                     /\ out'.acks = 1
                ELSE /\ sk'.ooo = sk.ooo
                     /\ out'.acks = 0]_vars

\* Data one byte ahead of RCV.NXT was the first thing to arrive: it is parked
\* and acknowledged, nothing is readable.
C31_Witness ==
    /\ sk.state = "Established"
    /\ sk.rcv_nxt = RaceSocket.rcv_nxt
    /\ sk.rx = <<>>
    /\ WrappingAdd(sk.rcv_nxt, 1) \in DOMAIN sk.ooo
    /\ out.acks = 1

\* The bytes of the segment that are delivered in order: its payload when it
\* starts at RCV.NXT.
InOrderLen(s, seg) == IF seg.seq = s.rcv_nxt THEN Len(seg.payload) ELSE 0

\* A segment with FIN and no RST arriving in Established.
FinStep(seg) ==
    /\ sk.state = "Established"
    /\ "FIN" \in seg.flags
    /\ "RST" \notin seg.flags
    /\ TcpRcv(seg)

\* A pass of read by task t over a connection half-closed by the peer.
ReadAfterFin(t) ==
    /\ sk.state = "CloseWait"
    /\ sk.eof
    /\ sk.error = 0
    /\ task'[t].op = "read"
    /\ (\E n \in IoLens : ReadCall(t, n)) \/ ReadRecheck(t)

\* C32: in Established a segment with FIN and no RST advances RCV.NXT by one
\* beyond any in-order payload it carries, enters CloseWait, sends an ACK,
\* sets EOF and wakes the RX waiters; reads that follow return the queued data
\* first and 0 once the queue is empty.
C32_FinClosesReceiveSide ==
    [][ /\ \A seg \in WithPayload({f \in FinSegments(sk) : "FIN" \in f.flags}) :
             FinStep(seg)
             => /\ sk'.rcv_nxt = (sk.rcv_nxt + InOrderLen(sk, seg) + 1) % SeqMod
                /\ sk'.state = "CloseWait"
                /\ out'.acks >= 1
                /\ sk'.eof
                /\ "rx" \in out'.woke
                /\ task["t1"].pc = "read_sleep" => task'["t1"].pc = "read_check"
        /\ ReadAfterFin("t1")
             => /\ task'["t1"].pc = "done"
                /\ IF sk.rx # <<>>
                   THEN \E n \in 1 .. Len(sk.rx) :
                           /\ n = Min(task'["t1"].arg, Len(sk.rx))
                           /\ task'["t1"].ret = FileOk(n)
                           /\ task'["t1"].buf = SubSeq(sk.rx, 1, n)
                           /\ sk'.rx = SubSeq(sk.rx, n + 1, Len(sk.rx))
                   ELSE /\ task'["t1"].ret = FileOk(0)
                        /\ sk' = sk
      ]_vars

\* A reader woken by the FIN has drained the queue and been told the stream
\* ended.
C32_Witness ==
    /\ sk.state = "CloseWait"
    /\ sk.eof
    /\ sk.rx = <<>>
    /\ sk.rcv_nxt # WrappingAdd(RaceSocket.rcv_nxt, 1)
    /\ task["t1"].pc = "done"
    /\ task["t1"].op = "read"
    /\ task["t1"].ret = FileOk(0)

\* C33: in Established a segment with RST closes the connection, stores the
\* pending error ECONNRESET and wakes the RX, TX and connect waiters, and
\* nothing else of the segment is processed: SND.UNA, SND.WND, RCV.NXT, the
\* retransmit queue, the RX queue and EOF keep their values, and no ACK is sent.
C33_ResetWhenEstablished ==
    [][sk.state = "Established" =>
        \A seg \in WithPayload({d \in DataSegments(sk) : "RST" \in d.flags}) :
          TcpRcv(seg)
          => /\ sk'.state = "Closed"
             /\ sk'.error = -104
             /\ out'.woke = {"rx", "tx", "connect"}
             /\ out'.acks = 0
             /\ sk'.snd_una = sk.snd_una
             /\ sk'.snd_wnd = sk.snd_wnd
             /\ sk'.rcv_nxt = sk.rcv_nxt
             /\ sk'.rtx = sk.rtx
             /\ sk'.rx = sk.rx
             /\ sk'.ooo = sk.ooo
             /\ sk'.eof = sk.eof]_vars

\* A reset arrived on the connection as it was set up: closed with the error
\* pending, the byte in flight still queued, nothing received.
C33_Witness ==
    /\ sk.state = "Closed"
    /\ sk.error = -104
    /\ out.woke = {"rx", "tx", "connect"}
    /\ sk.rtx = RaceSocket.rtx
    /\ sk.rtx # <<>>
    /\ sk.snd_una = RaceSocket.snd_una
    /\ sk.rcv_nxt = RaceSocket.rcv_nxt
    /\ ~sk.eof

\* C40: in Established a FIN is accepted only in sequence: a segment with FIN
\* and no RST that does not start at RCV.NXT leaves RCV.NXT, EOF and the state
\* as they were.
C40_FinOnlyInSequence ==
    [][sk.state = "Established" =>
        \A seg \in WithPayload({d \in DataSegments(sk) :
                                   /\ "FIN" \in d.flags
                                   /\ "RST" \notin d.flags
                                   /\ d.seq # sk.rcv_nxt}) :
          TcpRcv(seg)
          => /\ sk'.rcv_nxt = sk.rcv_nxt
             /\ sk'.eof = sk.eof
             /\ sk'.state = "Established"]_vars

(***************************************************************************)
(*                          CLAIMS ON FinWait1                             *)
(***************************************************************************)

\* The segment acknowledges the FIN this side sent.
AcksOurFin(s, seg) == "ACK" \in seg.flags /\ seg.ack = s.snd_nxt

\* C34: in FinWait1, a segment without RST moves to FinWait2 exactly when it
\* is an ACK with ack = SND.NXT and carries no FIN; with FIN it advances
\* RCV.NXT by one, sends an ACK, sets EOF and moves to TimeWait when it also
\* acknowledged our FIN, to Closing otherwise.  A segment with RST moves to
\* Closed and wakes all waiters, RCV.NXT and EOF untouched.
C34_FinWait1 ==
    [][sk.state = "FinWait1" =>
        \A seg \in SegmentsAt(sk) :
          TcpRcv(seg)
          => IF "RST" \in seg.flags
             THEN /\ sk'.state = "Closed"
                  /\ out'.woke = {"rx", "tx", "connect"}
                  /\ sk'.rcv_nxt = sk.rcv_nxt
                  /\ sk'.eof = sk.eof
             ELSE IF "FIN" \in seg.flags
             THEN /\ sk'.rcv_nxt = (sk.rcv_nxt + 1) % SeqMod
                  /\ out'.acks = 1
                  /\ sk'.eof
                  /\ sk'.state = IF AcksOurFin(sk, seg) THEN "TimeWait" ELSE "Closing"
             ELSE /\ sk'.state = IF AcksOurFin(sk, seg) THEN "FinWait2" ELSE "FinWait1"
                  /\ sk'.rcv_nxt = sk.rcv_nxt
                  /\ sk'.eof = sk.eof
                  /\ out'.acks = 0]_vars

\* One segment acknowledged our FIN and carried the peer's: TimeWait reached
\* with one ACK sent and the readers woken.
C34_Witness ==
    /\ sk.state = "TimeWait"
    /\ sk.eof
    /\ out.acks = 1
    /\ out.woke = {"rx"}

\* The peer's FIN crossed ours: Closing.
C34_WitnessClosing == sk.state = "Closing" /\ sk.eof /\ out.acks = 1

(***************************************************************************)
(*                     CLAIMS ON THE PID AND TID MAPS                      *)
(***************************************************************************)

\* C36: in every namespace, after any sequence of register, unregister,
\* register_task_pids and unregister_task_pids, pid_map and tid_map are
\* inverse of each other: pid_map[p] = t exactly when tid_map[t] = p.
C36_MapsAreInverse ==
    \A a \in PidNsIds :
        pidns[a].live =>
            /\ \A p \in DOMAIN pidns[a].pid_map :
                  LET t == pidns[a].pid_map[p]
                  IN  t \in DOMAIN pidns[a].tid_map /\ pidns[a].tid_map[t] = p
            /\ \A t \in DOMAIN pidns[a].tid_map :
                  LET p == pidns[a].tid_map[t]
                  IN  p \in DOMAIN pidns[a].pid_map /\ pidns[a].pid_map[p] = t

(***************************************************************************)
(*                  CLAIMS ON THE BLOCKING CONNECT LOOP                    *)
(***************************************************************************)

\* C38: a blocking connect whose handshake completed returns: once the
\* connection is Established with the caller about to read the state, the
\* caller leaves the kernel, whatever segments are processed in between.
C38_ConnectReturns ==
    (sk.state = "Established" /\ task["t1"].pc = "conn_check")
        ~> (task["t1"].pc = "done")

(***************************************************************************)
(*                      CLAIMS ON DROPPED INPUT                            *)
(***************************************************************************)

\* The packet is one the input path has to drop: too short for a header,
\* without a source or a destination address, with a data offset below the
\* minimum or beyond the segment, with a non-zero checksum result, or for no
\* known connection.
Invalid(pkt) ==
    \/ pkt.len < 20
    \/ ~pkt.saddr
    \/ ~pkt.daddr
    \/ pkt.data_offset < 20
    \/ pkt.data_offset > pkt.len
    \/ pkt.checksum # 0
    \/ ~pkt.known

\* The states in which tcp_rcv has no handler.
DeafStates == {"Closed", "Listen", "SynReceived", "Closing", "TimeWait"}

C37_ErrorDeliveredOnce ==
    [][\A t \in Tasks :
          (task[t].pc = "err_clear" /\ ErrorClear(t)) => sk.error = task[t].err]_vars

\* C37, second half alone: the clearing store of a caller never wipes out an
\* error other than the one the caller returns.
C37_NoErrorLost ==
    [][\A t \in Tasks :
          (task[t].pc = "err_clear" /\ ErrorClear(t))
          => sk.error \in {0, task[t].err}]_vars

(***************************************************************************)
(*               CLAIMS ON THE EXTENT-TREE SEARCH'S DESCENT                *)
(***************************************************************************)

\* C39: extent_tree_search terminates on every image: a search descends no
\* more often than the depth the root of the tree declares.
C39_DescentsBoundedByDepth == walk.descents <= walk.root_depth

\* C39, the case of a sound tree: a search of the depth-2 tree has ended with
\* the block found after two descents.
C39_SoundTreeFound ==
    /\ walk.pc = "done"
    /\ walk.ret.ok
    /\ walk.descents = 2
    /\ walk.root_depth = 2

=============================================================================
